---- MODULE Spec2Model ----
(***************************************************************************)
(* Model of rsmq-async (src/src/functions.rs): a message queue kept in     *)
(* Redis.  The Redis keys of one namespace are the state; every Redis      *)
(* round trip of an operation (a command, an atomic pipeline or a script)  *)
(* is one action, so that operations of concurrent clients interleave at   *)
(* the await points of the code.                                           *)
(*                                                                         *)
(* Time.  All millisecond quantities of the code are counted in ticks of   *)
(* 1000/TicksPerSec ms.  The Redis TIME reply (seconds, microseconds) is   *)
(* the pair now = [sec, sub], sub being the sub-second part in ticks.      *)
(*                                                                         *)
(* Message ids.  An id is radix_36(ts) followed by 22 random characters.   *)
(* It is the record [ts, rnd]: rnd is the rank of the random suffix in     *)
(* byte order.  All ts of the model have the same number of base-36        *)
(* digits, so the string order of ids is the order on (ts, rnd).  Two      *)
(* draws of 22 random characters are taken to differ.                      *)
(***************************************************************************)
EXTENDS Integers, Sequences, FiniteSets, TLC

TicksPerSec == 2
MaxSec == 2
MaxSends == 2
MaxRecv == 2
NumRnd == 2

JS_COMPAT_MAX_TIME_MILLIS == 9999999 * TicksPerSec
DefaultVt == 30 * TicksPerSec
DefaultMaxsize == 65536
\* u64::MAX; these integers have 32 bits, so it is stood for by a number above
\* JS_COMPAT_MAX_TIME_MILLIS: a Duration of more milliseconds exists
U64_MAX == 2000000000

Clients == {"c1", "c2"}
\* the default namespace
NS == "rsmq"
QNames == {"q1"}
RndSuffixes == 1..NumRnd

None == {}
Some(v) == {v}
Unwrap(o) == CHOOSE v \in o : TRUE

NoId == [ts |-> 0, rnd |-> 0]
NoMsg == [data |-> 0, len |-> 0]
Messages == {[data |-> 1, len |-> 3]}

CreateDurationArgs == {None, Some(1)}
CreateMaxsizeArgs == {None, Some(1023)}
SendDelayArgs == {None, Some(TicksPerSec)}
RecvHiddenArgs == {None, Some(0), Some(TicksPerSec)}
ChvisHiddenArgs == {0}

ConfFields == {"vt", "delay", "maxsize", "created", "modified", "totalrecv", "totalsent"}

VARIABLES
    now,      \* Redis TIME: [sec, sub]
    QUEUES,   \* the set {ns}QUEUES
    hconf,    \* hash {ns}{qname}:Q, the fields vt .. totalsent
    hmsg,     \* hash {ns}{qname}:Q, the fields {id}
    hrc,      \* hash {ns}{qname}:Q, the fields {id}:rc
    hfr,      \* hash {ns}{qname}:Q, the fields {id}:fr
    zset,     \* sorted set {ns}{qname}: id -> score
    pc,       \* per client: the round trip its call is waiting for
    loc,      \* per client: the locals of its call
    ret,      \* what the step just taken returned to its caller, if it returned
    uids,     \* every uid get_queue has generated
    hist,     \* per committed message: how it was sent and dequeued
    ndeq,     \* number of successful dequeues so far
    callsLeft, \* per client: the calls it may still start; -1 is no limit
    realtime, \* RsmqFunctions.realtime, fixed at construction
    published \* the PUBLISH commands Redis has executed, in order

vars == <<now, QUEUES, hconf, hmsg, hrc, hfr, zset, pc, loc, ret, uids, hist, ndeq, callsLeft,
          realtime, published>>
rt == <<realtime, published>>
redis == <<QUEUES, hconf, hmsg, hrc, hfr, zset>>

Empty == <<>>
Remove(f, k) == [x \in DOMAIN f \ {k} |-> f[x]]
Put(f, k, v) == (k :> v) @@ f
Get(f, k, d) == IF k \in DOMAIN f THEN f[k] ELSE d

\* the server clock in ticks, at full resolution
NowMillis == now.sec * TicksPerSec + now.sub

\* ------------------------------------------------------------ the id as a string
\* the digits of base 36 as radix_36 prints them
Lower36 ==
    <<"0", "1", "2", "3", "4", "5", "6", "7", "8", "9", "a", "b", "c", "d", "e", "f", "g", "h",
      "i", "j", "k", "l", "m", "n", "o", "p", "q", "r", "s", "t", "u", "v", "w", "x", "y", "z">>

Upper26 ==
    <<"A", "B", "C", "D", "E", "F", "G", "H", "I", "J", "K", "L", "M",
      "N", "O", "P", "Q", "R", "S", "T", "U", "V", "W", "X", "Y", "Z">>

\* make_id: the characters it draws from
possible == Upper26 \o SubSeq(Lower36, 11, 36) \o SubSeq(Lower36, 1, 10)

\* radix_36(n).to_string(): the digits of n, the first one not 0 unless n = 0
RECURSIVE radix_36(_)
radix_36(n) ==
    IF n < 36 THEN <<Lower36[n + 1]>>
    ELSE radix_36(n \div 36) \o <<Lower36[(n % 36) + 1]>>

\* make_id(len): len characters of possible; rnd stands for the draws
make_id(len, rnd) == [i \in 1..len |-> possible[((rnd * 17 + i * 7) % 62) + 1]]

\* an id that puts the timestamp into 10 characters, zeros first
RECURSIVE PadZeros(_, _)
PadZeros(str, len) == IF Len(str) >= len THEN str ELSE PadZeros(<<"0">> \o str, len)

UidStringPadded(id) == PadZeros(radix_36(id.ts), 10) \o make_id(22, id.rnd)

\* the uid of get_queue: radix_36(time_millis).to_string() + make_id(22)
UidString(id) == radix_36(id.ts) \o make_id(22, id.rnd)

\* char::to_digit(36): 0..35, or -1 for a character that is no digit
ToDigit36(ch) ==
    IF \E i \in 1..36 : Lower36[i] = ch THEN (CHOOSE i \in 1..36 : Lower36[i] = ch) - 1
    ELSE IF \E i \in 1..26 : Upper26[i] = ch THEN (CHOOSE i \in 1..26 : Upper26[i] = ch) + 9
    ELSE -1

\* a number as its digits of base 36 without zeros in front; 0 is <<>>
RECURSIVE Numeral36(_)
Numeral36(n) == IF n = 0 THEN <<>> ELSE Numeral36(n \div 36) \o <<n % 36>>

RECURSIVE StripZeros(_)
StripZeros(ds) == IF ds # <<>> /\ Head(ds) = 0 THEN StripZeros(Tail(ds)) ELSE ds

\* sent: u64::from_str_radix(&id[0..10], 36).unwrap_or(0), the number given by
\* its digits of base 36 (ten digits do not overflow u64)
Sent(str) ==
    LET ds == [i \in 1..10 |-> ToDigit36(str[i])]
    IN  IF \E i \in 1..10 : ds[i] = -1 THEN <<>> ELSE StripZeros(ds)

\* the characters of ids in the order of their bytes
ByteOrder == SubSeq(Lower36, 1, 10) \o Upper26 \o SubSeq(Lower36, 11, 36)
Ord(ch) == CHOOSE i \in 1..62 : ByteOrder[i] = ch

\* the order of members of equal score in a sorted set: strings byte by byte
StrLess(a, b) ==
    \E k \in 1..(Len(a) + 1) :
        /\ \A j \in 1..(k - 1) : j <= Len(b) /\ a[j] = b[j]
        /\ \/ k > Len(a) /\ k <= Len(b)
           \/ k <= Len(a) /\ k <= Len(b) /\ Ord(a[k]) < Ord(b[k])

\* id order: the string order of radix_36(ts) ++ suffix
IdLess(a, b) == StrLess(UidString(a), UidString(b))

\* the key {ns}{qname}:Q exists iff the hash has a field
HashExists(q) ==
    \/ DOMAIN hconf[q] # {}
    \/ DOMAIN hmsg[q] # {}
    \/ DOMAIN hrc[q] # {}
    \/ DOMAIN hfr[q] # {}

\* a range check that is off by one at both ends
NumberInRangeWide(value, min, max) == value >= min - 1 /\ value <= max + 1

NumberInRange(value, min, max) == value >= min /\ value <= max

\* a conversion that takes a missing duration for 0
GetRedisDurationNoDefault(d, default) == IF d = None THEN 0 ELSE Unwrap(d)

\* get_redis_duration: the milliseconds of d as u64; the default when d is
\* missing and when u64::try_from fails on them
GetRedisDuration(d, default) ==
    IF d = None \/ Unwrap(d) > U64_MAX THEN default ELSE Unwrap(d)

TimeMillis(t) == t.sec * TicksPerSec

\* a get_queue that reads a missing field as 0
GetQueueLenient(q, rnd) ==
    [found |-> TRUE, vt |-> Get(hconf[q], "vt", 0), delay |-> Get(hconf[q], "delay", 0),
     maxsize |-> Get(hconf[q], "maxsize", 0), ts |-> TimeMillis(now),
     uid |-> [ts |-> TimeMillis(now), rnd |-> rnd]]

\* get_queue: HMGET vt delay maxsize + TIME in one atomic pipeline
GetQueue(q, rnd) ==
    IF {"vt", "delay", "maxsize"} \subseteq DOMAIN hconf[q]
    THEN [found |-> TRUE, vt |-> hconf[q]["vt"], delay |-> hconf[q]["delay"],
          maxsize |-> hconf[q]["maxsize"], ts |-> TimeMillis(now),
          uid |-> [ts |-> TimeMillis(now), rnd |-> rnd]]
    ELSE [found |-> FALSE, vt |-> 0, delay |-> 0, maxsize |-> 0, ts |-> 0, uid |-> NoId]

\* the three optional arguments of set_queue_attributes
NoOpts == [hidden |-> None, delay |-> None, maxsize |-> None]

\* RsmqQueueAttributes
NoAttrs == [vt |-> 0, delay |-> 0, maxsize |-> 0, totalrecv |-> 0, totalsent |-> 0,
            created |-> 0, modified |-> 0, msgs |-> 0, hiddenmsgs |-> 0]

Loc0 == [q |-> "", ts |-> 0, T |-> 0, hidden |-> 0, delay |-> 0, maxsize |-> 0,
         time0 |-> 0, id |-> NoId, msg |-> NoMsg, op |-> "", opts |-> NoOpts,
         atime |-> 0, card |-> 0]
NoRet == [c |-> "", op |-> "", status |-> "", id |-> NoId, msg |-> NoMsg, rc |-> 0, fr |-> 0,
          attrs |-> NoAttrs, list |-> {}]

Ret(op, status) == [NoRet EXCEPT !.op = op, !.status = status]
Returns(c, r) == [r EXCEPT !.c = c]

Init ==
    /\ now = [sec |-> 1, sub |-> 0]
    /\ QUEUES = {}
    /\ hconf = [q \in QNames |-> Empty]
    /\ hmsg = [q \in QNames |-> Empty]
    /\ hrc = [q \in QNames |-> Empty]
    /\ hfr = [q \in QNames |-> Empty]
    /\ zset = [q \in QNames |-> Empty]
    /\ pc = [c \in Clients |-> "idle"]
    /\ loc = [c \in Clients |-> Loc0]
    /\ ret = NoRet
    /\ uids = {}
    /\ hist = Empty
    /\ ndeq = 0
    /\ callsLeft = [c \in Clients |-> -1]
    /\ realtime = FALSE
    /\ published = <<>>

\* client c starts a call
Call(c) ==
    /\ pc[c] = "idle"
    /\ callsLeft[c] # 0
    /\ callsLeft' = [callsLeft EXCEPT ![c] = IF @ > 0 THEN @ - 1 ELSE @]
    /\ UNCHANGED rt

\* the server clock advances by one tick
Tick ==
    /\ now.sec < MaxSec
    /\ now' = IF now.sub < TicksPerSec - 1
              THEN [now EXCEPT !.sub = now.sub + 1]
              ELSE [sec |-> now.sec + 1, sub |-> 0]
    /\ ret' = NoRet
    /\ UNCHANGED <<redis, pc, loc, uids, hist, ndeq, callsLeft, rt>>

\* ---------------------------------------------------------------- create_queue
\* names that the format of queue names excludes: the empty name, a name of
\* 161 characters (written x161) and a name with a space
BadNames == {"", "x161", "a b"}
AllNames == QNames \cup BadNames

\* name.len()
NameLen(name) ==
    CASE name = "" -> 0
      [] name = "x161" -> 161
      [] name = "a b" -> 3
      [] OTHER -> 2

\* name.chars().all(|c| c.is_ascii_alphanumeric() || c == '-' || c == '_')
NameCharsAllowed(name) == name # "a b"

\* valid_name_format: Err(InvalidFormat) iff the name is empty and longer than
\* 160; the result of the test of the characters is dropped. TRUE is Ok(())
valid_name_format(name) == ~(NameLen(name) = 0 /\ NameLen(name) > 160)

\* create_queue up to its first round trip: the argument checks, then TIME
CreateQueueTime(c, q, hidden, delay, maxsize) ==
    /\ Call(c)
    /\ LET h == GetRedisDuration(hidden, DefaultVt)
           d == GetRedisDuration(delay, 0)
           m == IF maxsize = None THEN DefaultMaxsize ELSE Unwrap(maxsize)
       IN  IF ~valid_name_format(q)
           THEN /\ ret' = Returns(c, Ret("create_queue", "InvalidFormat"))
                /\ UNCHANGED <<pc, loc>>
           ELSE IF \/ ~NumberInRange(h, 0, JS_COMPAT_MAX_TIME_MILLIS)
                   \/ ~NumberInRange(d, 0, JS_COMPAT_MAX_TIME_MILLIS)
                   \/ (~NumberInRange(m, 1024, 65536) /\ m # -1)
           THEN /\ ret' = Returns(c, Ret("create_queue", "InvalidValue"))
                /\ UNCHANGED <<pc, loc>>
           ELSE /\ pc' = [pc EXCEPT ![c] = "create_hsetnx"]
                /\ loc' = [loc EXCEPT ![c] = [Loc0 EXCEPT !.q = q, !.hidden = h,
                                 !.delay = d, !.maxsize = m, !.time0 = now.sec]]
                /\ ret' = NoRet
    /\ UNCHANGED <<now, redis, uids, hist, ndeq>>

\* the seven HSETNX of create_queue: a field is set only if it is absent
CreateFields(l) ==
    [f \in ConfFields |->
        CASE f = "vt" -> l.hidden
          [] f = "delay" -> l.delay
          [] f = "maxsize" -> l.maxsize
          [] f = "created" -> l.time0
          [] f = "modified" -> l.time0
          [] OTHER -> 0]

\* an HSETNX that writes the fields whether they exist or not
HSetNxOverwrite(h, fields) == fields @@ h

HSetNx(h, fields) == h @@ fields

\* a reply that reports every field as set
HSetNxReplyAlways(h, field) == TRUE

\* the reply of HSETNX field: whether the field was set
HSetNxReply(h, field) == field \notin DOMAIN h

\* the atomic HSETNX pipeline; results[0] is the reply of HSETNX vt
CreateQueueHsetnx(c) ==
    /\ pc[c] = "create_hsetnx"
    /\ UNCHANGED <<callsLeft, rt>>
    /\ LET q == loc[c].q
           results0 == HSetNxReply(hconf[q], "vt")
       IN  /\ hconf' = [hconf EXCEPT ![q] = HSetNx(hconf[q], CreateFields(loc[c]))]
           /\ IF ~results0
              THEN /\ pc' = [pc EXCEPT ![c] = "idle"]
                   /\ loc' = [loc EXCEPT ![c] = Loc0]
                   /\ ret' = Returns(c, Ret("create_queue", "QueueExists"))
              ELSE /\ pc' = [pc EXCEPT ![c] = "create_sadd"]
                   /\ ret' = NoRet
                   /\ UNCHANGED loc
    /\ UNCHANGED <<now, QUEUES, hmsg, hrc, hfr, zset, uids, hist, ndeq>>

\* SADD {ns}QUEUES qname, a round trip of its own
CreateQueueSadd(c) ==
    /\ pc[c] = "create_sadd"
    /\ UNCHANGED <<callsLeft, rt>>
    /\ QUEUES' = QUEUES \cup {loc[c].q}
    /\ pc' = [pc EXCEPT ![c] = "idle"]
    /\ loc' = [loc EXCEPT ![c] = Loc0]
    /\ ret' = Returns(c, Ret("create_queue", "Ok"))
    /\ UNCHANGED <<now, hconf, hmsg, hrc, hfr, zset, uids, hist, ndeq>>

\* ---------------------------------------------------------------- delete_queue
ZsetExists(q) == DOMAIN zset[q] # {}

\* a DEL that names the hash only
DelKeysHashOnly(q) == {"hash"}

\* the keys the DEL of delete_queue names: {ns}{qname}:Q and {ns}{qname}
DelKeys(q) == {"hash", "index"}

\* DEL {ns}{qname}:Q {ns}{qname} and SREM in one atomic pipeline;
\* results.0 is the number of keys DEL removed
DeleteQueue(c, q) ==
    /\ Call(c)
    /\ LET hash == "hash" \in DelKeys(q)
           index == "index" \in DelKeys(q)
           results0 == (IF hash /\ HashExists(q) THEN 1 ELSE 0)
                         + (IF index /\ ZsetExists(q) THEN 1 ELSE 0)
       IN  /\ ret' = Returns(c, Ret("delete_queue",
                                    IF results0 = 0 THEN "QueueNotFound" ELSE "Ok"))
           /\ hconf' = IF hash THEN [hconf EXCEPT ![q] = Empty] ELSE hconf
           /\ hmsg' = IF hash THEN [hmsg EXCEPT ![q] = Empty] ELSE hmsg
           /\ hrc' = IF hash THEN [hrc EXCEPT ![q] = Empty] ELSE hrc
           /\ hfr' = IF hash THEN [hfr EXCEPT ![q] = Empty] ELSE hfr
           /\ zset' = IF index THEN [zset EXCEPT ![q] = Empty] ELSE zset
    /\ QUEUES' = QUEUES \ {q}
    /\ UNCHANGED <<now, pc, loc, uids, hist, ndeq>>

\* ----------------------------------------------------------------- list_queues
\* a reply that lists one name at most
SMembersOne == IF QUEUES = {} THEN {} ELSE {CHOOSE q \in QUEUES : TRUE}

\* SMEMBERS {ns}QUEUES
SMembers == QUEUES

\* list_queues: one round trip
ListQueues(c) ==
    /\ Call(c)
    /\ ret' = Returns(c, [Ret("list_queues", "Ok") EXCEPT !.list = SMembers])
    /\ UNCHANGED <<now, redis, pc, loc, uids, hist, ndeq>>

\* -------------------------------------------------------------- delete_message
\* a delete_message that leaves the fields in the hash
HDelKept(h, field) == h

\* HDEL of one field
HDel(h, field) == Remove(h, field)

\* a delete_message that leaves the member in the index
ZRemKept(z, member) == z

\* ZREM of one member
ZRem(z, member) == Remove(z, member)

\* a result that asks for more than one deleted field
DeleteMessageResultStrict(zrem, hdel) == zrem = 1 /\ hdel > 1

\* the result of delete_message from the replies of ZREM and HDEL
DeleteMessageResult(zrem, hdel) == zrem = 1 /\ hdel > 0

\* the history of a message that delete_message has removed
Deleted == [due |-> 0, by |-> "deleted", hid |-> 0, dl |-> 0, fr0 |-> 0, popped |-> FALSE]

\* ZREM and HDEL id id:rc id:fr in one atomic pipeline
DeleteMessage(c, q, id) ==
    /\ Call(c)
    /\ LET zrem == IF id \in DOMAIN zset[q] THEN 1 ELSE 0
           hdel == (IF id \in DOMAIN hmsg[q] THEN 1 ELSE 0)
                   + (IF id \in DOMAIN hrc[q] THEN 1 ELSE 0)
                   + (IF id \in DOMAIN hfr[q] THEN 1 ELSE 0)
           result == DeleteMessageResult(zrem, hdel)
       IN  /\ ret' = Returns(c, [Ret("delete_message", IF result THEN "true" ELSE "false")
                        EXCEPT !.id = id])
           /\ hist' = IF result /\ id \in DOMAIN hist
                      THEN [hist EXCEPT ![id] = Deleted] ELSE hist
    /\ zset' = [zset EXCEPT ![q] = ZRem(zset[q], id)]
    /\ hmsg' = [hmsg EXCEPT ![q] = HDel(hmsg[q], id)]
    /\ hrc' = [hrc EXCEPT ![q] = HDel(hrc[q], id)]
    /\ hfr' = [hfr EXCEPT ![q] = HDel(hfr[q], id)]
    /\ UNCHANGED <<now, QUEUES, hconf, pc, loc, uids, ndeq>>

\* ---------------------------------------------------------------- send_message
\* send_message up to its send pipeline: get_queue (with a uid) and the checks
\* ZCARD
ZCard(z) == Cardinality(DOMAIN z)

\* a size check that rejects a payload of exactly maxsize bytes
MessageTooLongAtMaxsize(len, maxsize) == maxsize # -1 /\ len >= maxsize

\* the size check of send_message
MessageTooLong(len, maxsize) == maxsize # -1 /\ len > maxsize

SendGetQueue(c, q, message, delay, rnd) ==
    /\ Call(c)
    /\ LET queue == GetQueue(q, rnd)
           d == GetRedisDuration(delay, queue.delay)
       IN  IF ~queue.found
           THEN /\ ret' = Returns(c, Ret("send_message", "QueueNotFound"))
                /\ UNCHANGED <<pc, loc, uids>>
           ELSE IF ~NumberInRange(d, 0, JS_COMPAT_MAX_TIME_MILLIS)
           THEN /\ ret' = Returns(c, Ret("send_message", "InvalidValue"))
                /\ UNCHANGED <<pc, loc, uids>>
           ELSE IF MessageTooLong(message.len, queue.maxsize)
           THEN /\ ret' = Returns(c, Ret("send_message", "MessageTooLong"))
                /\ UNCHANGED <<pc, loc, uids>>
           ELSE /\ Cardinality(uids) < MaxSends
                /\ queue.uid \notin uids
                /\ uids' = uids \cup {queue.uid}
                /\ pc' = [pc EXCEPT ![c] = "send_pipeline"]
                /\ loc' = [loc EXCEPT ![c] = [Loc0 EXCEPT !.q = q, !.ts = queue.ts,
                                 !.T = NowMillis, !.delay = d, !.id = queue.uid,
                                 !.msg = message]]
                /\ ret' = NoRet
    /\ UNCHANGED <<now, redis, hist, ndeq>>

\* ZADD (ts + delay) uid, HSET uid message, HINCRBY totalsent 1, atomically
\* (realtime = false, the default: no ZCARD, no PUBLISH)
SendPipeline(c) ==
    /\ pc[c] = "send_pipeline"
    /\ UNCHANGED <<callsLeft, rt>>
    /\ LET q == loc[c].q
           uid == loc[c].id
       IN  /\ zset' = [zset EXCEPT ![q] = Put(zset[q], uid, loc[c].ts + loc[c].delay)]
           /\ hmsg' = [hmsg EXCEPT ![q] = Put(hmsg[q], uid, loc[c].msg)]
           /\ hconf' = [hconf EXCEPT ![q] =
                            Put(hconf[q], "totalsent", Get(hconf[q], "totalsent", 0) + 1)]
           /\ hist' = Put(hist, uid, [due |-> loc[c].T + loc[c].delay, by |-> "send",
                                      hid |-> 0, dl |-> 0, fr0 |-> 0, popped |-> FALSE,
                                      bytes |-> loc[c].msg])
           /\ IF realtime
              THEN /\ pc' = [pc EXCEPT ![c] = "send_publish"]
                   /\ loc' = [loc EXCEPT ![c].card = ZCard(Put(zset[q], uid, 0))]
                   /\ ret' = NoRet
              ELSE /\ pc' = [pc EXCEPT ![c] = "idle"]
                   /\ loc' = [loc EXCEPT ![c] = Loc0]
                   /\ ret' = Returns(c, [Ret("send_message", "Ok") EXCEPT !.id = uid])
    /\ UNCHANGED <<now, QUEUES, hrc, hfr, uids, ndeq>>

\* a channel name without the colon after the namespace
ChannelNoColon(q) == <<NS, "rt:", q>>

\* the channel of the realtime PUBLISH: format!("{}:rt:{}", self.ns, qname)
Channel(q) == <<NS, ":rt:", q>>

\* PUBLISH channel result[3], a round trip after the pipeline; when it fails
\* the `?` returns its error
SendPublish(c) ==
    /\ pc[c] = "send_publish"
    /\ UNCHANGED <<callsLeft, realtime>>
    /\ \E ok \in BOOLEAN :
          IF ok
          THEN /\ published' = Append(published, [channel |-> Channel(loc[c].q),
                                                  payload |-> loc[c].card, id |-> loc[c].id])
               /\ ret' = Returns(c, [Ret("send_message", "Ok") EXCEPT !.id = loc[c].id])
          ELSE /\ published' = published
               /\ ret' = Returns(c, Ret("send_message", "RedisError"))
    /\ pc' = [pc EXCEPT ![c] = "idle"]
    /\ loc' = [loc EXCEPT ![c] = Loc0]
    /\ UNCHANGED <<now, redis, uids, hist, ndeq>>

\* ------------------------------------------------------------ the Lua scripts
Visible(q, ts) == {m \in DOMAIN zset[q] : zset[q][m] <= ts}

\* the order of the sorted set: by score, then by member
ZLess(q, a, b) == zset[q][a] < zset[q][b] \/ (zset[q][a] = zset[q][b] /\ IdLess(a, b))

\* a range that ends with the member to take
LastVisible(q, ts) ==
    CHOOSE m \in Visible(q, ts) : \A o \in Visible(q, ts) \ {m} : ZLess(q, o, m)

\* ZRANGEBYSCORE key -inf ts LIMIT 0 1
FirstVisible(q, ts) ==
    CHOOSE m \in Visible(q, ts) : \A o \in Visible(q, ts) \ {m} : ZLess(q, m, o)

NotFoundReply(q) ==
    [found |-> FALSE, id |-> NoId, msg |-> NoMsg, rc |-> 0, fr |-> 0,
     zset |-> zset[q], hconf |-> hconf[q], hmsg |-> hmsg[q], hrc |-> hrc[q], hfr |-> hfr[q]]

\* receiveMessage.lua: the reply and the keys of q after the script
ReceiveMessageLua(q, ts, deadline) ==
    IF Visible(q, ts) = {} THEN NotFoundReply(q)
    ELSE LET m == FirstVisible(q, ts)
             rc == Get(hrc[q], m, 0) + 1
             fr == IF rc = 1 THEN ts ELSE Get(hfr[q], m, 0)
         IN  [found |-> TRUE, id |-> m, msg |-> Get(hmsg[q], m, NoMsg), rc |-> rc, fr |-> fr,
              zset |-> Put(zset[q], m, deadline),
              hconf |-> Put(hconf[q], "totalrecv", Get(hconf[q], "totalrecv", 0) + 1),
              hmsg |-> hmsg[q],
              hrc |-> Put(hrc[q], m, rc),
              hfr |-> IF rc = 1 THEN Put(hfr[q], m, ts) ELSE hfr[q]]

\* popMessage.lua: as receiveMessage.lua, but the message is removed
PopMessageLua(q, ts) ==
    IF Visible(q, ts) = {} THEN NotFoundReply(q)
    ELSE LET m == FirstVisible(q, ts)
             rc == Get(hrc[q], m, 0) + 1
             fr == IF rc = 1 THEN ts ELSE Get(hfr[q], m, 0)
         IN  [found |-> TRUE, id |-> m, msg |-> Get(hmsg[q], m, NoMsg), rc |-> rc, fr |-> fr,
              zset |-> Remove(zset[q], m),
              hconf |-> Put(hconf[q], "totalrecv", Get(hconf[q], "totalrecv", 0) + 1),
              hmsg |-> Remove(hmsg[q], m),
              hrc |-> Remove(hrc[q], m),
              hfr |-> Remove(hfr[q], m)]

\* a script that sets the score without looking for the member
ChangeMessageVisibilityLuaInsert(q, id, deadline) ==
    [found |-> id \in DOMAIN zset[q], zset |-> Put(zset[q], id, deadline)]

\* a script that gives every member the deadline
ChangeMessageVisibilityLuaAll(q, id, deadline) ==
    [found |-> id \in DOMAIN zset[q], zset |-> [m \in DOMAIN zset[q] |-> deadline]]

\* changeMessageVisibility.lua: the reply and the sorted set after the script
ChangeMessageVisibilityLua(q, id, deadline) ==
    IF id \in DOMAIN zset[q]
    THEN [found |-> TRUE, zset |-> Put(zset[q], id, deadline)]
    ELSE [found |-> FALSE, zset |-> zset[q]]

\* ------------------------------------------------------- payload conversions
\* UTF-8 of a string given by its code points; code points below 2048
RECURSIVE Utf8Encode(_)
Utf8Encode(chars) ==
    IF chars = <<>> THEN <<>>
    ELSE LET cp == Head(chars)
         IN  (IF cp < 128 THEN <<cp>> ELSE <<192 + (cp \div 64), 128 + (cp % 64)>>)
                 \o Utf8Encode(Tail(chars))

\* String::from_utf8 on sequences of one and two bytes: the code points, or
\* not ok
RECURSIVE Utf8Decode(_)
Utf8Decode(bytes) ==
    IF bytes = <<>> THEN [ok |-> TRUE, chars |-> <<>>]
    ELSE LET b == Head(bytes)
         IN  IF b < 128
             THEN LET rest == Utf8Decode(Tail(bytes))
                  IN  [ok |-> rest.ok, chars |-> <<b>> \o rest.chars]
             ELSE IF b >= 194 /\ b <= 223 /\ Len(bytes) >= 2
                        /\ bytes[2] >= 128 /\ bytes[2] <= 191
             THEN LET rest == Utf8Decode(SubSeq(bytes, 3, Len(bytes)))
                  IN  [ok |-> rest.ok,
                       chars |-> <<(b - 192) * 64 + (bytes[2] - 128)>> \o rest.chars]
             ELSE [ok |-> FALSE, chars |-> <<>>]

\* the types a payload is read as: the two of the library and the MyValue of
\* the tests, which wraps into_bytes
DecodeTypes == {"String", "Vec<u8>", "MyValue"}

\* From<..> for RedisBytes: the bytes of a payload and their number
IntoRedisBytes(p) ==
    LET bytes == IF p.type = "String" THEN Utf8Encode(p.value) ELSE p.value
    IN  [data |-> bytes, len |-> Len(bytes)]

\* a conversion to String that drops the bytes that are no UTF-8
TryFromRedisBytesLossy(E, bytes) ==
    IF E = "String"
    THEN [ok |-> TRUE,
          value |-> [data |-> SelectSeq(bytes.data, LAMBDA b : b < 128), len |-> bytes.len]]
    ELSE [ok |-> TRUE, value |-> bytes]

\* TryFrom<RedisBytes> for E: the value, or the bytes back as the error
TryFromRedisBytes(E, bytes) ==
    IF E = "String"
    THEN LET d == Utf8Decode(bytes.data)
         IN  IF d.ok THEN [ok |-> TRUE, value |-> [data |-> d.chars, len |-> bytes.len]]
             ELSE [ok |-> FALSE, value |-> bytes]
    ELSE [ok |-> TRUE, value |-> bytes]

\* a mapping that takes every reply for a message
DequeueResultAlways(op, reply) ==
    [Ret(op, "Some") EXCEPT !.id = reply.id, !.msg = reply.msg,
                            !.rc = reply.rc, !.fr = reply.fr]

\* a mapping that reads rc and fr from each other's position in the reply
DequeueResultSwapped(op, reply) ==
    IF ~reply.found THEN Ret(op, "None")
    ELSE [Ret(op, "Some") EXCEPT !.id = reply.id, !.msg = reply.msg,
                                 !.rc = reply.fr, !.fr = reply.rc]

\* what receive_message and pop_message make of the script's reply
DequeueResult(op, reply) ==
    IF ~reply.found THEN Ret(op, "None")
    ELSE [Ret(op, "Some") EXCEPT !.id = reply.id, !.msg = reply.msg,
                                 !.rc = reply.rc, !.fr = reply.fr]

\* the result of a dequeue read as E: E::try_from on the bytes of the reply
DequeueResultAs(op, reply, E) ==
    LET r == DequeueResult(op, reply)
        d == TryFromRedisBytes(E, r.msg)
    IN  IF r.status # "Some" THEN r
        ELSE IF d.ok THEN [r EXCEPT !.msg = d.value]
        ELSE [Ret(op, "CannotDecodeMessage") EXCEPT !.msg = d.value]

InFlightDequeues == Cardinality({c \in Clients : pc[c] \in {"recv_script", "pop_script"}})

ApplyReply(q, reply) ==
    /\ zset' = [zset EXCEPT ![q] = reply.zset]
    /\ hconf' = [hconf EXCEPT ![q] = reply.hconf]
    /\ hmsg' = [hmsg EXCEPT ![q] = reply.hmsg]
    /\ hrc' = [hrc EXCEPT ![q] = reply.hrc]
    /\ hfr' = [hfr EXCEPT ![q] = reply.hfr]

\* ------------------------------------------------------------- receive_message
\* receive_message up to its script: get_queue, the hidden time and its check
RecvGetQueue(c, q, hidden) ==
    /\ Call(c)
    /\ LET queue == GetQueue(q, 0)
           h == GetRedisDuration(hidden, queue.vt)
       IN  IF ~queue.found
           THEN /\ ret' = Returns(c, Ret("receive_message", "QueueNotFound"))
                /\ UNCHANGED <<pc, loc>>
           ELSE IF ~NumberInRange(h, 0, JS_COMPAT_MAX_TIME_MILLIS)
           THEN /\ ret' = Returns(c, Ret("receive_message", "InvalidValue"))
                /\ UNCHANGED <<pc, loc>>
           ELSE /\ ndeq + InFlightDequeues < MaxRecv
                /\ pc' = [pc EXCEPT ![c] = "recv_script"]
                /\ loc' = [loc EXCEPT ![c] = [Loc0 EXCEPT !.q = q, !.ts = queue.ts,
                                 !.T = NowMillis, !.hidden = h]]
                /\ ret' = NoRet
    /\ UNCHANGED <<now, redis, uids, hist, ndeq>>

\* a deadline that takes the hidden time for seconds
RecvDeadlineSeconds(l) == l.ts + 1000 * l.hidden

\* a deadline that leaves the hidden time out
RecvDeadlineNow(l) == l.ts

\* the third key of the script: the new deadline of the message
RecvDeadline(l) == l.ts + l.hidden

\* the receiveMessage script with the keys queue, ts, ts + hidden
RecvScriptAs(c, E) ==
    /\ pc[c] = "recv_script"
    /\ UNCHANGED <<callsLeft, rt>>
    /\ LET q == loc[c].q
           reply == ReceiveMessageLua(q, loc[c].ts, RecvDeadline(loc[c]))
       IN  /\ ApplyReply(q, reply)
           /\ ret' = Returns(c, DequeueResultAs("receive_message", reply, E))
           /\ IF reply.found
              THEN /\ ndeq' = ndeq + 1
                   /\ hist' = [hist EXCEPT ![reply.id] =
                                 [@ EXCEPT !.due = loc[c].T + loc[c].hidden, !.by = "recv",
                                           !.hid = loc[c].hidden,
                                           !.dl = loc[c].ts + loc[c].hidden,
                                           !.fr0 = IF @ = 0 THEN reply.fr ELSE @]]
              ELSE UNCHANGED <<ndeq, hist>>
    /\ pc' = [pc EXCEPT ![c] = "idle"]
    /\ loc' = [loc EXCEPT ![c] = Loc0]
    /\ UNCHANGED <<now, QUEUES, uids>>

\* receive_message::<Vec<u8>>
RecvScript(c) == RecvScriptAs(c, "Vec<u8>")

\* ----------------------------------------------------------------- pop_message
PopGetQueue(c, q) ==
    /\ Call(c)
    /\ LET queue == GetQueue(q, 0)
       IN  IF ~queue.found
           THEN /\ ret' = Returns(c, Ret("pop_message", "QueueNotFound"))
                /\ UNCHANGED <<pc, loc>>
           ELSE /\ ndeq + InFlightDequeues < MaxRecv
                /\ pc' = [pc EXCEPT ![c] = "pop_script"]
                /\ loc' = [loc EXCEPT ![c] = [Loc0 EXCEPT !.q = q, !.ts = queue.ts,
                                 !.T = NowMillis]]
                /\ ret' = NoRet
    /\ UNCHANGED <<now, redis, uids, hist, ndeq>>

\* the popMessage script with the keys queue, ts
PopScriptAs(c, E) ==
    /\ pc[c] = "pop_script"
    /\ UNCHANGED <<callsLeft, rt>>
    /\ LET q == loc[c].q
           reply == PopMessageLua(q, loc[c].ts)
       IN  /\ ApplyReply(q, reply)
           /\ ret' = Returns(c, DequeueResultAs("pop_message", reply, E))
           /\ IF reply.found
              THEN /\ ndeq' = ndeq + 1
                   /\ hist' = [hist EXCEPT ![reply.id] =
                                 [@ EXCEPT !.popped = TRUE]]
              ELSE UNCHANGED <<ndeq, hist>>
    /\ pc' = [pc EXCEPT ![c] = "idle"]
    /\ loc' = [loc EXCEPT ![c] = Loc0]
    /\ UNCHANGED <<now, QUEUES, uids>>

\* pop_message::<Vec<u8>>
PopScript(c) == PopScriptAs(c, "Vec<u8>")

\* --------------------------------------------------- change_message_visibility
ChvisGetQueue(c, q, id, hidden) ==
    /\ Call(c)
    /\ LET queue == GetQueue(q, 0)
           h == GetRedisDuration(Some(hidden), DefaultVt)
       IN  IF ~queue.found
           THEN /\ ret' = Returns(c, Ret("change_message_visibility", "QueueNotFound"))
                /\ UNCHANGED <<pc, loc>>
           ELSE IF ~NumberInRange(h, 0, JS_COMPAT_MAX_TIME_MILLIS)
           THEN /\ ret' = Returns(c, Ret("change_message_visibility", "InvalidValue"))
                /\ UNCHANGED <<pc, loc>>
           ELSE /\ pc' = [pc EXCEPT ![c] = "chvis_script"]
                /\ loc' = [loc EXCEPT ![c] = [Loc0 EXCEPT !.q = q, !.ts = queue.ts,
                                 !.T = NowMillis, !.hidden = h, !.id = id]]
                /\ ret' = NoRet
    /\ UNCHANGED <<now, redis, uids, hist, ndeq>>

\* a deadline that takes the default visibility timeout instead of hidden
ChvisDeadlineVt(l) == l.ts + DefaultVt

\* the deadline change_message_visibility passes to its script
ChvisDeadline(l) == l.ts + l.hidden

\* the changeMessageVisibility script with the keys queue, id, ts + hidden;
\* its reply is dropped
ChvisScript(c) ==
    /\ pc[c] = "chvis_script"
    /\ UNCHANGED <<callsLeft, rt>>
    /\ LET q == loc[c].q
           reply == ChangeMessageVisibilityLua(q, loc[c].id, ChvisDeadline(loc[c]))
       IN  /\ zset' = [zset EXCEPT ![q] = reply.zset]
           /\ hist' = IF reply.found
                      THEN [hist EXCEPT ![loc[c].id] = [@ EXCEPT !.by = "chvis", !.due = 0,
                                                                        !.hid = 0, !.dl = 0]]
                      ELSE hist
    /\ ret' = Returns(c, Ret("change_message_visibility", "Ok"))
    /\ pc' = [pc EXCEPT ![c] = "idle"]
    /\ loc' = [loc EXCEPT ![c] = Loc0]
    /\ UNCHANGED <<now, QUEUES, hconf, hmsg, hrc, hfr, uids, ndeq>>

\* -------------------------------------------------------- get_queue_attributes
\* a ZCOUNT that reports one member too many
ZCountPlusOne(z, min) == Cardinality({m \in DOMAIN z : z[m] >= min}) + 1

\* ZCOUNT key min +inf
ZCount(z, min) == Cardinality({m \in DOMAIN z : z[m] >= min})

\* get_queue_attributes up to its pipeline: TIME, a round trip of its own
GetQueueAttributesTime(c, q) ==
    /\ Call(c)
    /\ pc' = [pc EXCEPT ![c] = "attr_pipeline"]
    /\ loc' = [loc EXCEPT ![c] = [Loc0 EXCEPT !.q = q, !.op = "get_queue_attributes",
                     !.atime = now.sec, !.T = NowMillis]]
    /\ ret' = NoRet
    /\ UNCHANGED <<now, redis, uids, hist, ndeq>>

\* HMGET of the seven fields, ZCARD and ZCOUNT time.0 +inf, atomically;
\* time.0 is the seconds of TIME
QueueAttributes(q, time0) ==
    [vt |-> hconf[q]["vt"], delay |-> hconf[q]["delay"], maxsize |-> hconf[q]["maxsize"],
     totalrecv |-> hconf[q]["totalrecv"], totalsent |-> hconf[q]["totalsent"],
     created |-> hconf[q]["created"], modified |-> hconf[q]["modified"],
     msgs |-> ZCard(zset[q]), hiddenmsgs |-> ZCount(zset[q], time0)]

\* the pipeline of get_queue_attributes, also the last round trip of
\* set_queue_attributes
AttrPipeline(c) ==
    /\ pc[c] = "attr_pipeline"
    /\ UNCHANGED <<callsLeft, rt>>
    /\ LET q == loc[c].q
           is_empty == ~(ConfFields \subseteq DOMAIN hconf[q])
       IN  ret' = Returns(c, IF is_empty THEN Ret(loc[c].op, "QueueNotFound")
                             ELSE [Ret(loc[c].op, "Ok") EXCEPT
                                      !.attrs = QueueAttributes(q, loc[c].atime)])
    /\ pc' = [pc EXCEPT ![c] = "idle"]
    /\ loc' = [loc EXCEPT ![c] = Loc0]
    /\ UNCHANGED <<now, redis, uids, hist, ndeq>>

\* -------------------------------------------------------- set_queue_attributes
\* set_queue_attributes up to TIME: get_queue
SetGetQueue(c, q, hidden, delay, maxsize) ==
    /\ Call(c)
    /\ IF ~GetQueue(q, 0).found
       THEN /\ ret' = Returns(c, Ret("set_queue_attributes", "QueueNotFound"))
            /\ UNCHANGED <<pc, loc>>
       ELSE /\ pc' = [pc EXCEPT ![c] = "set_time"]
            /\ loc' = [loc EXCEPT ![c] = [Loc0 EXCEPT !.q = q, !.op = "set_queue_attributes",
                             !.opts = [hidden |-> hidden, delay |-> delay,
                                       maxsize |-> maxsize]]]
            /\ ret' = NoRet
    /\ UNCHANGED <<now, redis, uids, hist, ndeq>>

\* a set_queue_attributes that writes modified before it checks its arguments
SetTimeWritesFirst(c) ==
    /\ pc[c] = "set_time"
    /\ UNCHANGED <<callsLeft, rt>>
    /\ hconf' = [hconf EXCEPT ![loc[c].q] = ([f \in {"modified"} |-> now.sec] @@ @)]
    /\ ret' = Returns(c, Ret("set_queue_attributes", "InvalidValue"))
    /\ pc' = [pc EXCEPT ![c] = "idle"]
    /\ loc' = [loc EXCEPT ![c] = Loc0]
    /\ UNCHANGED <<now, QUEUES, hmsg, hrc, hfr, zset, uids, hist, ndeq>>

\* TIME, then the checks of the supplied arguments while the pipeline is built
SetTime(c) ==
    /\ pc[c] = "set_time"
    /\ UNCHANGED <<callsLeft, rt>>
    /\ LET o == loc[c].opts
       IN  IF \/ (o.hidden # None /\
                   ~NumberInRange(GetRedisDuration(o.hidden, DefaultVt), 0,
                                  JS_COMPAT_MAX_TIME_MILLIS))
              \/ (o.delay # None /\
                   ~NumberInRange(GetRedisDuration(o.delay, 0), 0, JS_COMPAT_MAX_TIME_MILLIS))
              \/ (o.maxsize # None /\ ~NumberInRange(Unwrap(o.maxsize), 1024, 65536)
                   /\ Unwrap(o.maxsize) # -1)
           THEN /\ ret' = Returns(c, Ret("set_queue_attributes", "InvalidValue"))
                /\ pc' = [pc EXCEPT ![c] = "idle"]
                /\ loc' = [loc EXCEPT ![c] = Loc0]
           ELSE /\ pc' = [pc EXCEPT ![c] = "set_hset"]
                /\ loc' = [loc EXCEPT ![c].time0 = now.sec]
                /\ ret' = NoRet
    /\ UNCHANGED <<now, redis, uids, hist, ndeq>>

\* the fields the HSET pipeline writes: modified and the supplied attributes
SetFields(l) ==
    [f \in {"modified"}
           \cup (IF l.opts.hidden # None THEN {"vt"} ELSE {})
           \cup (IF l.opts.delay # None THEN {"delay"} ELSE {})
           \cup (IF l.opts.maxsize # None THEN {"maxsize"} ELSE {}) |->
        CASE f = "modified" -> l.time0
          [] f = "vt" -> GetRedisDuration(l.opts.hidden, DefaultVt)
          [] f = "delay" -> GetRedisDuration(l.opts.delay, 0)
          [] f = "maxsize" -> Unwrap(l.opts.maxsize)]

\* an HSET that keeps the fields that exist
HSetKeep(h, fields) == h @@ fields

\* HSET: the fields are written whether they exist or not
HSet(h, fields) == fields @@ h

\* the atomic HSET pipeline
SetHset(c) ==
    /\ pc[c] = "set_hset"
    /\ UNCHANGED <<callsLeft, rt>>
    /\ hconf' = [hconf EXCEPT ![loc[c].q] = HSet(@, SetFields(loc[c]))]
    /\ pc' = [pc EXCEPT ![c] = "set_attr_time"]
    /\ ret' = NoRet
    /\ UNCHANGED <<now, QUEUES, hmsg, hrc, hfr, zset, loc, uids, hist, ndeq>>

\* the TIME of the get_queue_attributes that ends set_queue_attributes
SetAttrTime(c) ==
    /\ pc[c] = "set_attr_time"
    /\ UNCHANGED <<callsLeft, rt>>
    /\ pc' = [pc EXCEPT ![c] = "attr_pipeline"]
    /\ loc' = [loc EXCEPT ![c].atime = now.sec, ![c].T = NowMillis]
    /\ ret' = NoRet
    /\ UNCHANGED <<now, redis, uids, hist, ndeq>>

SetDurationArgs == {None, Some(TicksPerSec)}
SetMaxsizeArgs == {None, Some(-1), Some(2048)}

\* ------------------------------------------------------------ the whole system
GetQueueAttributes ==
    \/ \E c \in Clients, q \in QNames : GetQueueAttributesTime(c, q)
    \/ \E c \in Clients : AttrPipeline(c)

\* its last round trip is AttrPipeline of GetQueueAttributes
SetQueueAttributes ==
    \/ \E c \in Clients, q \in QNames, h \in SetDurationArgs, d \in SetDurationArgs,
          m \in SetMaxsizeArgs : SetGetQueue(c, q, h, d, m)
    \/ \E c \in Clients : SetTime(c)
    \/ \E c \in Clients : SetHset(c)
    \/ \E c \in Clients : SetAttrTime(c)

CreateQueue ==
    \/ \E c \in Clients, q \in QNames, h \in CreateDurationArgs, d \in CreateDurationArgs,
          m \in CreateMaxsizeArgs : CreateQueueTime(c, q, h, d, m)
    \/ \E c \in Clients : CreateQueueHsetnx(c)
    \/ \E c \in Clients : CreateQueueSadd(c)

SendMessage ==
    \/ \E c \in Clients, q \in QNames, msg \in Messages, d \in SendDelayArgs,
          r \in RndSuffixes : SendGetQueue(c, q, msg, d, r)
    \/ \E c \in Clients : SendPipeline(c)

ReceiveMessage ==
    \/ \E c \in Clients, q \in QNames, h \in RecvHiddenArgs : RecvGetQueue(c, q, h)
    \/ \E c \in Clients : RecvScript(c)

PopMessage ==
    \/ \E c \in Clients, q \in QNames : PopGetQueue(c, q)
    \/ \E c \in Clients : PopScript(c)

ChangeMessageVisibility ==
    \/ \E c \in Clients, q \in QNames, id \in uids, h \in ChvisHiddenArgs :
          ChvisGetQueue(c, q, id, h)
    \/ \E c \in Clients : ChvisScript(c)

Next ==
    \/ Tick
    \/ CreateQueue
    \/ \E c \in Clients, q \in QNames : DeleteQueue(c, q)
    \/ \E c \in Clients, q \in QNames, id \in uids : DeleteMessage(c, q, id)
    \/ SendMessage
    \/ ReceiveMessage
    \/ PopMessage
    \/ ChangeMessageVisibility
    \/ GetQueueAttributes
    \/ SetQueueAttributes
    \/ \E c \in Clients : SendPublish(c)
    \/ \E c \in Clients : ListQueues(c)

Spec == Init /\ [][Next]_vars

\* the queue life cycle: creators, deleters and senders of one name
NextQueue ==
    \/ Tick
    \/ CreateQueue
    \/ \E c \in Clients, q \in QNames : DeleteQueue(c, q)
    \/ \E c \in Clients, q \in QNames, msg \in Messages, r \in RndSuffixes :
          uids = {} /\ SendGetQueue(c, q, msg, None, r)
    \/ \E c \in Clients : SendPipeline(c)

SpecQueue == Init /\ [][NextQueue]_vars

\* the state after create_queue("q1", None, None, None) has returned Ok
InitCreated ==
    /\ now = [sec |-> 1, sub |-> 0]
    /\ QUEUES = QNames
    /\ hconf = [q \in QNames |-> CreateFields([Loc0 EXCEPT !.hidden = DefaultVt,
                                    !.maxsize = DefaultMaxsize, !.time0 = 1])]
    /\ hmsg = [q \in QNames |-> Empty]
    /\ hrc = [q \in QNames |-> Empty]
    /\ hfr = [q \in QNames |-> Empty]
    /\ zset = [q \in QNames |-> Empty]
    /\ pc = [c \in Clients |-> "idle"]
    /\ loc = [c \in Clients |-> Loc0]
    /\ ret = NoRet
    /\ uids = {}
    /\ hist = Empty
    /\ ndeq = 0
    /\ callsLeft = [c \in Clients |-> -1]
    /\ realtime = FALSE
    /\ published = <<>>

\* the messages of a created queue: senders and consumers
NextMsg ==
    \/ Tick
    \/ \E c \in Clients, q \in QNames : DeleteQueue(c, q)
    \/ \E c \in Clients, q \in QNames, id \in uids : DeleteMessage(c, q, id)
    \/ SendMessage
    \/ ReceiveMessage
    \/ PopMessage
    \/ ChangeMessageVisibility

SpecMsg == InitCreated /\ [][NextMsg]_vars
\* creators racing for one name, no delete_queue
NextCreate ==
    \/ Tick
    \/ CreateQueue

SpecCreate == Init /\ [][NextCreate]_vars

\* the id and the payload of the message of InitOneVisible
Id0 == [ts |-> TimeMillis([sec |-> 1, sub |-> 0]), rnd |-> 1]
Msg0 == [data |-> 1, len |-> 3]

\* the state after create_queue("q1", None, None, None) and one send_message
\* without delay at sec 1; every client may start one call
InitOneVisible ==
    /\ now = [sec |-> 1, sub |-> 0]
    /\ QUEUES = QNames
    /\ hconf = [q \in QNames |-> Put(CreateFields([Loc0 EXCEPT !.hidden = DefaultVt,
                                    !.maxsize = DefaultMaxsize, !.time0 = 1]), "totalsent", 1)]
    /\ hmsg = [q \in QNames |-> Id0 :> Msg0]
    /\ hrc = [q \in QNames |-> Empty]
    /\ hfr = [q \in QNames |-> Empty]
    /\ zset = [q \in QNames |-> Id0 :> Id0.ts]
    /\ pc = [c \in Clients |-> "idle"]
    /\ loc = [c \in Clients |-> Loc0]
    /\ ret = NoRet
    /\ uids = {Id0}
    /\ hist = Id0 :> [due |-> Id0.ts, by |-> "send", hid |-> 0, dl |-> 0, fr0 |-> 0,
                      popped |-> FALSE]
    /\ ndeq = 0
    /\ callsLeft = [c \in Clients |-> 1]
    /\ realtime = FALSE
    /\ published = <<>>

RaceHiddenArgs == RecvHiddenArgs \cup {Some(JS_COMPAT_MAX_TIME_MILLIS)}

\* one receive_message call per client on a queue with one visible message
NextRace ==
    \/ Tick
    \/ \E c \in Clients, q \in QNames, h \in RaceHiddenArgs : RecvGetQueue(c, q, h)
    \/ \E c \in Clients : RecvScript(c)

SpecRace == InitOneVisible /\ [][NextRace]_vars

\* one client that sends numbered messages without a delay argument and
\* receives and deletes them one at a time
NextFifo ==
    \/ Tick
    \/ \E q \in QNames, r \in RndSuffixes :
          SendGetQueue("c1", q, [data |-> Cardinality(uids) + 1, len |-> 3], None, r)
    \/ SendPipeline("c1")
    \/ \E q \in QNames : DOMAIN hrc[q] = {} /\ RecvGetQueue("c1", q, None)
    \/ RecvScript("c1")
    \/ \E q \in QNames : \E id \in DOMAIN hrc[q] : DeleteMessage("c1", q, id)

SpecFifo == InitCreated /\ [][NextFifo]_vars

\* one message and consumers that keep calling receive_message while time
\* advances: a started round trip completes, and an idle consumer calls again
NextLive ==
    \/ Tick
    \/ \E c \in Clients, q \in QNames, msg \in Messages, r \in RndSuffixes :
          uids = {} /\ SendGetQueue(c, q, msg, None, r)
    \/ \E c \in Clients : SendPipeline(c)
    \/ ReceiveMessage
    \/ \E c \in Clients, q \in QNames, id \in uids : DeleteMessage(c, q, id)

SpecLive ==
    /\ InitCreated
    /\ [][NextLive]_vars
    /\ WF_vars(Tick)
    /\ \A c \in Clients :
          /\ WF_vars(\E q \in QNames, h \in RecvHiddenArgs : RecvGetQueue(c, q, h))
          /\ WF_vars(RecvScript(c))

\* the ids get_queue can generate within the horizon
IdSpace == {[ts |-> TimeMillis([sec |-> sec, sub |-> 0]), rnd |-> r] :
                sec \in 1..MaxSec, r \in RndSuffixes}

\* every operation on one name that is created with the default attributes,
\* deleted and used for one message
NextNotFound ==
    \/ Tick
    \/ \E c \in Clients, q \in QNames : CreateQueueTime(c, q, None, None, None)
    \/ \E c \in Clients : CreateQueueHsetnx(c)
    \/ \E c \in Clients : CreateQueueSadd(c)
    \/ \E c \in Clients, q \in QNames : DeleteQueue(c, q)
    \/ GetQueueAttributes
    \/ \E c \in Clients, q \in QNames : SetGetQueue(c, q, Some(TicksPerSec), None, None)
    \/ \E c \in Clients : SetTime(c)
    \/ \E c \in Clients : SetHset(c)
    \/ \E c \in Clients : SetAttrTime(c)
    \/ \E c \in Clients, q \in QNames, msg \in Messages, r \in RndSuffixes :
          uids = {} /\ SendGetQueue(c, q, msg, None, r)
    \/ \E c \in Clients : SendPipeline(c)
    \/ \E c \in Clients, q \in QNames : RecvGetQueue(c, q, None)
    \/ \E c \in Clients : RecvScript(c)
    \/ PopMessage
    \/ ChangeMessageVisibility

SpecNotFound == Init /\ [][NextNotFound]_vars

\* a name that is created with no optional argument, read and deleted
NextDefaults ==
    \/ Tick
    \/ \E c \in Clients, q \in QNames : CreateQueueTime(c, q, None, None, None)
    \/ \E c \in Clients : CreateQueueHsetnx(c)
    \/ \E c \in Clients : CreateQueueSadd(c)
    \/ \E c \in Clients, q \in QNames : DeleteQueue(c, q)
    \/ GetQueueAttributes

SpecDefaults == Init /\ [][NextDefaults]_vars

\* one client that sets the attributes of a queue while the other sends,
\* receives and reads the attributes
NextAttr ==
    \/ Tick
    \/ \E q \in QNames, h \in SetDurationArgs, d \in SetDurationArgs, m \in SetMaxsizeArgs :
          SetGetQueue("c1", q, h, d, m)
    \/ SetTime("c1")
    \/ SetHset("c1")
    \/ SetAttrTime("c1")
    \/ \E q \in QNames : GetQueueAttributesTime("c2", q)
    \/ \E c \in Clients : AttrPipeline(c)
    \/ \E q \in QNames, msg \in Messages, r \in RndSuffixes :
          uids = {} /\ SendGetQueue("c2", q, msg, None, r)
    \/ SendPipeline("c2")
    \/ \E q \in QNames : RecvGetQueue("c2", q, None)
    \/ RecvScript("c2")

SpecAttr == InitCreated /\ [][NextAttr]_vars

\* message operations of two clients interleaved with get_queue_attributes
NextStats ==
    \/ Tick
    \/ \E c \in Clients, q \in QNames, id \in uids : DeleteMessage(c, q, id)
    \/ SendMessage
    \/ ReceiveMessage
    \/ PopMessage
    \/ GetQueueAttributes

SpecStats == InitCreated /\ [][NextStats]_vars

\* a consumer that receives with the queue's vt and makes messages visible
\* again with change_message_visibility, a producer that sends and deletes
NextChvis ==
    \/ Tick
    \/ \E q \in QNames, msg \in Messages, r \in RndSuffixes :
          SendGetQueue("c2", q, msg, None, r)
    \/ SendPipeline("c2")
    \/ \E q \in QNames, id \in uids : DeleteMessage("c2", q, id)
    \/ \E q \in QNames : RecvGetQueue("c1", q, None)
    \/ RecvScript("c1")
    \/ \E q \in QNames, id \in uids, h \in ChvisHiddenArgs : ChvisGetQueue("c1", q, id, h)
    \/ ChvisScript("c1")

SpecChvis == InitCreated /\ [][NextChvis]_vars

\* durations at the ends of the accepted range, just above it and above
\* u64::MAX milliseconds
RangeDurations == {0, JS_COMPAT_MAX_TIME_MILLIS, JS_COMPAT_MAX_TIME_MILLIS + 1, U64_MAX + 1}

\* one client calling every operation that takes a duration, with these
\* durations, on a queue it creates
NextRange ==
    \/ Tick
    \/ \E q \in QNames, h \in RangeDurations : CreateQueueTime("c1", q, Some(h), None, None)
    \/ \E q \in QNames, d \in RangeDurations : CreateQueueTime("c1", q, None, Some(d), None)
    \/ CreateQueueHsetnx("c1")
    \/ CreateQueueSadd("c1")
    \/ \E q \in QNames, h \in RangeDurations : SetGetQueue("c1", q, Some(h), None, None)
    \/ \E q \in QNames, d \in RangeDurations : SetGetQueue("c1", q, None, Some(d), None)
    \/ SetTime("c1")
    \/ SetHset("c1")
    \/ SetAttrTime("c1")
    \/ AttrPipeline("c1")
    \/ \E q \in QNames, msg \in Messages, r \in RndSuffixes, d \in RangeDurations :
          uids = {} /\ SendGetQueue("c1", q, msg, Some(d), r)
    \/ SendPipeline("c1")
    \/ \E q \in QNames, h \in RangeDurations : RecvGetQueue("c1", q, Some(h))
    \/ RecvScript("c1")
    \/ \E q \in QNames, id \in uids, h \in RangeDurations : ChvisGetQueue("c1", q, id, h)
    \/ ChvisScript("c1")

SpecRange == Init /\ [][NextRange]_vars

\* maxsize and durations at and next to the ends of their ranges, and a
\* duration above u64::MAX milliseconds
MaxsizeEnds == {Some(-1), Some(1023), Some(1024), Some(65536), Some(65537)}
DurationEnds == {Some(0), Some(JS_COMPAT_MAX_TIME_MILLIS), Some(JS_COMPAT_MAX_TIME_MILLIS + 1),
                 Some(U64_MAX + 1)}

\* a client that creates and deletes a queue and a client that updates it,
\* with these arguments
NextBounds ==
    \/ Tick
    \/ \E q \in QNames :
          \/ \E m \in MaxsizeEnds : CreateQueueTime("c1", q, None, None, m)
          \/ \E h \in DurationEnds : CreateQueueTime("c1", q, h, None, None)
          \/ \E d \in DurationEnds : CreateQueueTime("c1", q, None, d, None)
    \/ CreateQueueHsetnx("c1")
    \/ CreateQueueSadd("c1")
    \/ \E q \in QNames : DeleteQueue("c1", q)
    \/ \E q \in QNames :
          \/ \E m \in MaxsizeEnds : SetGetQueue("c2", q, None, None, m)
          \/ \E h \in DurationEnds : SetGetQueue("c2", q, h, None, None)
          \/ \E d \in DurationEnds : SetGetQueue("c2", q, None, d, None)
    \/ SetTime("c2")
    \/ SetHset("c2")
    \/ SetAttrTime("c2")
    \/ AttrPipeline("c2")

SpecBounds == Init /\ [][NextBounds]_vars

\* payloads as long as the smallest and the largest maxsize, and one byte more
SizeMessages == {[data |-> 1, len |-> n] : n \in {1024, 1025, 65536, 65537}}

\* a producer sending these payloads while the maxsize of the queue is changed
NextSize ==
    \/ Tick
    \/ \E q \in QNames, msg \in SizeMessages, r \in RndSuffixes :
          SendGetQueue("c1", q, msg, None, r)
    \/ SendPipeline("c1")
    \/ \E q \in QNames, m \in {Some(-1), Some(1024), Some(65536)} :
          SetGetQueue("c2", q, None, None, m)
    \/ SetTime("c2")
    \/ SetHset("c2")
    \/ SetAttrTime("c2")
    \/ AttrPipeline("c2")

SpecSize == InitCreated /\ [][NextSize]_vars

\* Redis without a key, the keys of every name being followed
InitNames ==
    /\ now = [sec |-> 1, sub |-> 0]
    /\ QUEUES = {}
    /\ hconf = [q \in AllNames |-> Empty]
    /\ hmsg = [q \in AllNames |-> Empty]
    /\ hrc = [q \in AllNames |-> Empty]
    /\ hfr = [q \in AllNames |-> Empty]
    /\ zset = [q \in AllNames |-> Empty]
    /\ pc = [c \in Clients |-> "idle"]
    /\ loc = [c \in Clients |-> Loc0]
    /\ ret = NoRet
    /\ uids = {}
    /\ hist = Empty
    /\ ndeq = 0
    /\ callsLeft = [c \in Clients |-> -1]
    /\ realtime = FALSE
    /\ published = <<>>

\* two clients creating queues of well-formed and of excluded names
NextNames ==
    \/ Tick
    \/ \E c \in Clients, q \in AllNames : CreateQueueTime(c, q, None, None, None)
    \/ \E c \in Clients : CreateQueueHsetnx(c)
    \/ \E c \in Clients : CreateQueueSadd(c)

SpecNames == InitNames /\ [][NextNames]_vars

\* a created queue, the clients constructed with realtime on or off
InitRealtime ==
    /\ now = [sec |-> 1, sub |-> 0]
    /\ QUEUES = QNames
    /\ hconf = [q \in QNames |-> CreateFields([Loc0 EXCEPT !.hidden = DefaultVt,
                                    !.maxsize = DefaultMaxsize, !.time0 = 1])]
    /\ hmsg = [q \in QNames |-> Empty]
    /\ hrc = [q \in QNames |-> Empty]
    /\ hfr = [q \in QNames |-> Empty]
    /\ zset = [q \in QNames |-> Empty]
    /\ pc = [c \in Clients |-> "idle"]
    /\ loc = [c \in Clients |-> Loc0]
    /\ ret = NoRet
    /\ uids = {}
    /\ hist = Empty
    /\ ndeq = 0
    /\ callsLeft = [c \in Clients |-> -1]
    /\ realtime \in BOOLEAN
    /\ published = <<>>

\* producers and consumers of a queue, with the PUBLISH of realtime
NextRealtime ==
    \/ Tick
    \/ \E c \in Clients, q \in QNames, msg \in Messages, r \in RndSuffixes :
          SendGetQueue(c, q, msg, None, r)
    \/ \E c \in Clients : SendPipeline(c)
    \/ \E c \in Clients : SendPublish(c)
    \/ PopMessage
    \/ \E c \in Clients, q \in QNames, id \in uids : DeleteMessage(c, q, id)

SpecRealtime == InitRealtime /\ [][NextRealtime]_vars

\* payloads handed to send_message: a string with a two-byte character, and
\* bytes that are no UTF-8
Payloads == {[type |-> "String", value |-> <<104, 233>>],
             [type |-> "Vec<u8>", value |-> <<255, 104>>]}

\* a producer that sends payloads and updates the queue's attributes, and a
\* consumer that receives, pops and changes visibility, reading the payload
\* as any of the types
NextPayload ==
    \/ Tick
    \/ \E q \in QNames, p \in Payloads, r \in RndSuffixes :
          SendGetQueue("c2", q, IntoRedisBytes(p), None, r)
    \/ SendPipeline("c2")
    \/ \E q \in QNames : SetGetQueue("c2", q, Some(TicksPerSec), None, Some(-1))
    \/ SetTime("c2")
    \/ SetHset("c2")
    \/ SetAttrTime("c2")
    \/ AttrPipeline("c2")
    \/ \E q \in QNames : RecvGetQueue("c1", q, None)
    \/ \E E \in DecodeTypes : RecvScriptAs("c1", E)
    \/ \E q \in QNames : PopGetQueue("c1", q)
    \/ \E E \in DecodeTypes : PopScriptAs("c1", E)
    \/ \E q \in QNames, id \in uids, h \in ChvisHiddenArgs : ChvisGetQueue("c1", q, id, h)
    \/ ChvisScript("c1")

SpecPayload == InitCreated /\ [][NextPayload]_vars

\* one client that creates, deletes and lists queues of several names, one
\* call after the other
NextList ==
    \/ Tick
    \/ \E q \in AllNames : CreateQueueTime("c1", q, None, None, None)
    \/ CreateQueueHsetnx("c1")
    \/ CreateQueueSadd("c1")
    \/ \E q \in AllNames : DeleteQueue("c1", q)
    \/ ListQueues("c1")

SpecList == InitNames /\ [][NextList]_vars

\* arguments of create_queue and set_queue_attributes of which one is out of
\* range and another one in range, and arguments that are all in range
ValidateArgs ==
    {<<Some(TicksPerSec), None, Some(1023)>>,
     <<Some(JS_COMPAT_MAX_TIME_MILLIS + 1), None, Some(2048)>>,
     <<Some(TicksPerSec), Some(JS_COMPAT_MAX_TIME_MILLIS + 1), None>>,
     <<Some(TicksPerSec), None, Some(2048)>>}

\* payloads within and above a maxsize of 2048, delays in and out of range
ValidateMessages == {[data |-> 1, len |-> 3], [data |-> 2, len |-> 2049]}
ValidateDelays == {None, Some(JS_COMPAT_MAX_TIME_MILLIS + 1)}

\* a client that creates and deletes a queue and sets its attributes, and one
\* that sends to it, with arguments that pass and that fail the checks
NextValidate ==
    \/ Tick
    \/ \E q \in QNames, a \in ValidateArgs : CreateQueueTime("c1", q, a[1], a[2], a[3])
    \/ CreateQueueHsetnx("c1")
    \/ CreateQueueSadd("c1")
    \/ \E q \in QNames : DeleteQueue("c1", q)
    \/ \E q \in QNames, a \in ValidateArgs : SetGetQueue("c1", q, a[1], a[2], a[3])
    \/ SetTime("c1")
    \/ SetHset("c1")
    \/ SetAttrTime("c1")
    \/ AttrPipeline("c1")
    \/ \E q \in QNames, msg \in ValidateMessages, d \in ValidateDelays, r \in RndSuffixes :
          uids = {} /\ SendGetQueue("c2", q, msg, d, r)
    \/ SendPipeline("c2")

SpecValidate == Init /\ [][NextValidate]_vars

\* hidden times of change_message_visibility: none, a second, two seconds
FrameHiddenArgs == {0, TicksPerSec, 2 * TicksPerSec}

\* a producer that sends with and without delay and a consumer that receives
\* and changes the visibility of messages
NextFrame ==
    \/ Tick
    \/ \E q \in QNames, msg \in Messages, d \in SendDelayArgs, r \in RndSuffixes :
          SendGetQueue("c2", q, msg, d, r)
    \/ SendPipeline("c2")
    \/ \E q \in QNames : RecvGetQueue("c1", q, Some(0))
    \/ RecvScript("c1")
    \/ \E q \in QNames, id \in uids, h \in FrameHiddenArgs : ChvisGetQueue("c1", q, id, h)
    \/ ChvisScript("c1")

SpecFrame == InitCreated /\ [][NextFrame]_vars

\* ------------------------------------------------------------------ properties
\* a step in which a receive_message or pop_message call returns a message
DequeueReturns ==
    /\ ret'.op \in {"receive_message", "pop_message"}
    /\ ret'.status = "Some"

\* C5: in every reachable state, between round trips of in-flight operations
\* too, a queue name is in the registry set {ns}QUEUES iff its config hash
\* {ns}{qname}:Q exists
C5_RegistryIffHash == \A q \in QNames : (q \in QUEUES) <=> HashExists(q)

\* C6: in every reachable state and for every queue, an id is a member of the
\* sorted set {ns}{qname} iff its payload field {id} exists in the hash
C6_IndexIffPayload == \A q \in QNames : DOMAIN zset[q] = DOMAIN hmsg[q]

\* a received message is stored with its index entry and its payload, and
\* another message that was sent is gone from both
C6_Witness ==
    \E q \in QNames, m \in DOMAIN hist :
        /\ m \in DOMAIN zset[q] /\ m \in DOMAIN hmsg[q] /\ m \in DOMAIN hrc[q]
        /\ \E o \in DOMAIN hist : o \notin DOMAIN zset[q] /\ o \notin DOMAIN hmsg[q]

\* C2: no id is returned by two successful pop_message calls, and a message
\* that pop_message returned is returned by no later receive_message or
\* pop_message: every dequeue returns a sent message that no pop has returned
C2_PoppedOnce ==
    [][DequeueReturns => (ret'.id \in DOMAIN hist /\ ~hist[ret'.id].popped)]_vars

\* after pop_message returned one message, a dequeue returned another one
C2_Witness ==
    /\ ret.op \in {"receive_message", "pop_message"} /\ ret.status = "Some"
    /\ \E m \in DOMAIN hist : hist[m].popped /\ m # ret.id

\* C7: a successful receive_message returns rc = the stored receive count
\* before the call + 1 (1 on the first receive), and the fr it returns for a
\* message is the fr of the first receive of that message
C7_RcAndFr ==
    [][(ret'.op = "receive_message" /\ ret'.status = "Some") =>
         LET q == loc[ret'.c].q
             m == ret'.id
         IN  /\ m \in DOMAIN hist
             /\ ret'.rc = Get(hrc[q], m, 0) + 1
             /\ (hist[m].fr0 = 0 => ret'.rc = 1)
             /\ (hist[m].fr0 # 0 => ret'.fr = hist[m].fr0)]_vars

\* a second receive of a message returned rc = 2 in a later second than the
\* first receive, with the fr of the first
C7_Witness ==
    /\ ret.op = "receive_message" /\ ret.status = "Some"
    /\ ret.rc = 2 /\ ret.fr < TimeMillis(now)

\* C8: a message sent at server time T with effective delay d is returned by
\* no receive_message or pop_message whose server time is below T + d (unless
\* change_message_visibility moved its deadline), and a receive_message whose
\* server time is at least T + d returns it when it is the only message
C8_DelayRespected ==
    /\ [][DequeueReturns =>
            (hist[ret'.id].by = "send" => loc[ret'.c].T >= hist[ret'.id].due)]_vars
    /\ [][\A c \in Clients :
            (pc[c] = "recv_script" /\ ret'.c = c /\ ret'.status = "None") =>
                ~ \E m \in DOMAIN hist :
                    /\ DOMAIN zset[loc[c].q] = {m}
                    /\ hist[m].by = "send"
                    /\ loc[c].T >= hist[m].due]_vars

\* C9: after a receive_message at server time T with effective hidden time
\* h > 0 returned m, no receive_message or pop_message whose server time is
\* below T + h returns m, unless change_message_visibility moved the deadline
C9_HiddenRespected ==
    [][DequeueReturns =>
         ((hist[ret'.id].by = "recv" /\ hist[ret'.id].hid > 0) =>
              loc[ret'.c].T >= hist[ret'.id].due)]_vars

\* every client has made its call and has its result
AllDone == \A c \in Clients : pc[c] = "idle" /\ callsLeft[c] = 0

\* C1 as stated: of the concurrent receive_message calls on a queue with one
\* visible message, exactly one returns the message, whatever the hidden time
C1_ExactlyOneReceives == AllDone => ndeq = 1

\* C1: of the concurrent receive_message calls on a queue with one visible
\* message at least one returns it, and a call returns it after another call
\* did only if its ts has reached the deadline ts + hidden of that call
C1_OneReceivesUntilDeadline ==
    /\ [](AllDone => ndeq >= 1)
    /\ [][DequeueReturns =>
            (hist[ret'.id].by = "recv" => loc[ret'.c].ts >= hist[ret'.id].dl)]_vars

\* every call is over: one returned the message with a hidden time above 0,
\* the last one to return got None, and the deadline is still ahead
C1_Witness ==
    /\ AllDone /\ ndeq = 1
    /\ ret.status = "None"
    /\ hist[Id0].hid > 0
    /\ hist[Id0].dl > TimeMillis(now)

\* C3: of the create_queue calls racing for a name that does not exist, one
\* returns Ok and no other does; a call that fails with QueueExists lost to a
\* call that returned Ok or is about to; when all calls are over one returned Ok
C3_OneCreatorWins ==
    /\ [][(ret'.op = "create_queue" /\ ret'.status = "Ok") =>
            loc[ret'.c].q \notin QUEUES]_vars
    /\ [][(ret'.op = "create_queue" /\ ret'.status = "QueueExists") =>
            \/ loc[ret'.c].q \in QUEUES
            \/ \E o \in Clients \ {ret'.c} :
                   pc[o] = "create_sadd" /\ loc[o].q = loc[ret'.c].q]_vars
    /\ [](\A q \in QNames :
            (HashExists(q) /\ \A c \in Clients : pc[c] = "idle") => q \in QUEUES)

\* a creator fails with QueueExists while the winner has not returned yet
C3_Witness ==
    /\ ret.op = "create_queue" /\ ret.status = "QueueExists"
    /\ \E c \in Clients : pc[c] = "create_sadd"
    /\ QUEUES = {}

\* C4: of two messages sent in order with the same delay the first has the
\* smaller or equal id, and receive_message + delete_message return them in
\* the order they were sent
C4_SendOrder ==
    \A q \in QNames :
        /\ \A m1, m2 \in DOMAIN hmsg[q] :
               hmsg[q][m1].data < hmsg[q][m2].data => ~IdLess(m2, m1)
        /\ (ret.op = "receive_message" /\ ret.status = "Some") =>
               \A m \in DOMAIN hmsg[q] : ret.msg.data <= hmsg[q][m].data

\* C10: a message that receive_message returned once, with a deadline the
\* clock reaches, is returned again by a later receive_message with rc
\* incremented, unless it is deleted, provided consumers keep calling
\* receive_message and time advances
C10_Redelivered ==
    \A q \in QNames, m \in IdSpace :
        (/\ m \in DOMAIN zset[q]
         /\ Get(hrc[q], m, 0) = 1
         /\ hist[m].by = "recv"
         /\ hist[m].dl <= MaxSec * TicksPerSec)
        ~> (m \notin DOMAIN zset[q] \/ Get(hrc[q], m, 0) >= 2)

\* a message is stored with receive count 2, its second receive in a later
\* second than its first
C10_Witness ==
    \E q \in QNames : \E m \in DOMAIN zset[q] :
        /\ Get(hrc[q], m, 0) = 2
        /\ Get(hfr[q], m, 0) < TimeMillis(now)
        /\ hist[m].fr0 = Get(hfr[q], m, 0)

\* C11: once delete_message(qname, id) has returned true, no receive_message
\* or pop_message returns the message id, however far time advances
C11_DeletedNeverReturned ==
    [][DequeueReturns => hist[ret'.id].by # "deleted"]_vars

\* every message sent has been deleted with result true, the clock is at its
\* horizon and a dequeue found nothing
C11_Witness ==
    /\ ret.op \in {"receive_message", "pop_message"} /\ ret.status = "None"
    /\ \E m \in DOMAIN hist : hist[m].by = "deleted"
    /\ \A m \in DOMAIN hist : hist[m].by = "deleted"
    /\ now.sec = MaxSec

\* C12: delete_message returns true exactly when id is a member of the index
\* with its payload field present at the time of the call, false otherwise
\* (for a queue that does not exist and for a second delete too), and never
\* fails with QueueNotFound
C12_DeleteResult ==
    [][ret'.op = "delete_message" =>
         /\ ret'.status \in {"true", "false"}
         /\ ret'.status = "true" <=>
              \E q \in QNames : ret'.id \in DOMAIN zset[q] /\ ret'.id \in DOMAIN hmsg[q]
         /\ \A q \in QNames : ret'.id \notin DOMAIN zset'[q] /\ ret'.id \notin DOMAIN hmsg'[q]]_vars

\* a second delete_message of a message returns false
C12_Witness ==
    /\ ret.op = "delete_message" /\ ret.status = "false"
    /\ ret.id \in DOMAIN hist /\ hist[ret.id].by = "deleted"

\* C13: create_queue on a name whose queue exists fails with QueueExists, and
\* a create_queue that fails with QueueExists leaves every key as it was: the
\* attributes, created, modified, the counters, the messages and the registry
C13_QueueExistsChangesNothing ==
    /\ [][\A c \in Clients :
            (/\ pc[c] = "create_hsetnx" /\ pc'[c] # "create_hsetnx"
             /\ ConfFields \subseteq DOMAIN hconf[loc[c].q])
            => (/\ ret'.c = c /\ ret'.op = "create_queue" /\ ret'.status = "QueueExists"
                /\ UNCHANGED redis)]_vars
    /\ [][(ret'.op = "create_queue" /\ ret'.status = "QueueExists") => UNCHANGED redis]_vars

\* a create_queue has failed with QueueExists on a registered queue that
\* holds a message and has counted a send
C13_Witness ==
    /\ ret.op = "create_queue" /\ ret.status = "QueueExists"
    /\ \E q \in QUEUES : DOMAIN hmsg[q] # {} /\ hconf[q]["totalsent"] = 1

\* no key of the name exists and the name is not registered
NotExists(q) == q \notin QUEUES /\ ~HashExists(q) /\ ~ZsetExists(q)

QueueOps == {"delete_queue", "get_queue_attributes", "set_queue_attributes", "send_message",
             "receive_message", "pop_message", "change_message_visibility"}

\* C14: on a name that does not exist delete_queue, get_queue_attributes,
\* set_queue_attributes, send_message, receive_message, pop_message and
\* change_message_visibility fail with QueueNotFound and change no key: the
\* round trip that looks the queue up returns the error and none goes on
C14_QueueNotFound ==
    [][(\A q \in QNames : NotExists(q)) =>
         /\ \A c \in Clients :
              pc[c] = "idle" => pc'[c] \in {"idle", "create_hsetnx", "attr_pipeline"}
         /\ (/\ ret'.op \in QueueOps
             /\ \/ pc[ret'.c] = "idle"
                \/ (pc[ret'.c] = "attr_pipeline" /\ loc[ret'.c].op = "get_queue_attributes"))
            => (ret'.status = "QueueNotFound" /\ UNCHANGED redis)]_vars

\* after the queue was used and deleted, a set_queue_attributes on the name
\* failed with QueueNotFound
C14_Witness ==
    /\ ret.op = "set_queue_attributes" /\ ret.status = "QueueNotFound"
    /\ \A q \in QNames : NotExists(q)
    /\ hist # Empty

\* C15: get_queue_attributes of a queue created with no optional argument
\* reports vt = 30 s, delay = 0, maxsize = 65536, totalrecv = totalsent = 0,
\* msgs = hiddenmsgs = 0, and created = modified, a server time that is not 0
C15_DefaultAttributes ==
    (ret.op = "get_queue_attributes" /\ ret.status = "Ok") =>
        /\ ret.attrs.vt = 30 * TicksPerSec
        /\ ret.attrs.delay = 0
        /\ ret.attrs.maxsize = 65536
        /\ ret.attrs.totalrecv = 0 /\ ret.attrs.totalsent = 0
        /\ ret.attrs.msgs = 0 /\ ret.attrs.hiddenmsgs = 0
        /\ ret.attrs.created = ret.attrs.modified
        /\ ret.attrs.created >= 1 /\ ret.attrs.created <= now.sec

\* get_queue_attributes has returned the attributes of a queue created in
\* the last second of the horizon
C15_Witness ==
    /\ ret.op = "get_queue_attributes" /\ ret.status = "Ok"
    /\ ret.attrs.created = MaxSec

\* the value set_queue_attributes stores for a supplied attribute
Supplied(o, f) ==
    CASE f = "vt" -> Unwrap(o.hidden)
      [] f = "delay" -> Unwrap(o.delay)
      [] f = "maxsize" -> Unwrap(o.maxsize)

SuppliedFields(o) ==
    (IF o.hidden # None THEN {"vt"} ELSE {}) \cup (IF o.delay # None THEN {"delay"} ELSE {})
        \cup (IF o.maxsize # None THEN {"maxsize"} ELSE {})

HiddenAt(q, t) == {m \in DOMAIN zset[q] : zset[q][m] > t}

\* C17: get_queue_attributes reports as hiddenmsgs the number of index members
\* whose score is greater than the server time in ms: at most those hidden at
\* the TIME the call read, at least those hidden when its pipeline runs
C17_HiddenCount ==
    [][(ret'.op = "get_queue_attributes" /\ ret'.status = "Ok") =>
          LET c == ret'.c
              q == loc[c].q
          IN  /\ ret'.attrs.hiddenmsgs <= Cardinality(HiddenAt(q, loc[c].T))
              /\ ret'.attrs.hiddenmsgs >= Cardinality(HiddenAt(q, NowMillis))]_vars

\* C18: every result of get_queue_attributes has hiddenmsgs <= msgs
C18_HiddenAtMostMsgs ==
    (ret.op \in {"get_queue_attributes", "set_queue_attributes"} /\ ret.status = "Ok")
        => ret.attrs.hiddenmsgs <= ret.attrs.msgs

\* get_queue_attributes returned the counts of a queue that holds one of two
\* sent messages, the other deleted, while the other client is between the
\* two round trips of a receive_message or a pop_message
C18_Witness ==
    /\ ret.op = "get_queue_attributes" /\ ret.status = "Ok"
    /\ ret.attrs.msgs = 1 /\ ret.attrs.hiddenmsgs = 1 /\ ret.attrs.totalsent = 2
    /\ \E c \in Clients : pc[c] \in {"recv_script", "pop_script"}
    /\ \E id \in DOMAIN hist : hist[id].by = "deleted"

\* what C19 asks of a pop_message whose script runs as client c's step, the
\* index members with a score <= t counting as visible
PopContract(c, t) ==
    LET q == loc[c].q
        vis == {m \in DOMAIN zset[q] : zset[q][m] <= t}
        id == ret'.id
    IN  IF vis # {}
        THEN /\ ret'.op = "pop_message" /\ ret'.status = "Some" /\ id \in vis
             /\ ret'.msg = hmsg[q][id]
             /\ ret'.rc = Get(hrc[q], id, 0) + 1
             /\ id \notin DOMAIN hrc[q] => ret'.rc = 1 /\ ret'.fr = t
             /\ id \in DOMAIN hrc[q] => ret'.fr = hfr[q][id]
             /\ id \notin DOMAIN zset'[q] /\ id \notin DOMAIN hmsg'[q]
             /\ id \notin DOMAIN hrc'[q] /\ id \notin DOMAIN hfr'[q]
             /\ ZCard(zset'[q]) = ZCard(zset[q]) - 1
             /\ ZCard(zset[q]) = 1 => zset'[q] = Empty
        ELSE ret'.op = "pop_message" /\ ret'.status = "None"

\* C19: pop_message on a queue with a message visible at the server time of
\* the call returns it with rc and fr as after the increment (1 and that
\* server time for a message never received), removes the id from the index
\* and its three fields from the hash in the same step, so that msgs drops by
\* 1 and the queue that held one message is empty for the next pop_message
C19_PopReturnsAndRemoves ==
    [][\A c \in Clients : (pc[c] = "pop_script" /\ pc'[c] = "idle") =>
            PopContract(c, loc[c].T)]_vars

\* C20: when change_message_visibility(q, I, 0) has succeeded on a message I
\* that a receive_message had hidden, the next receive_message on the queue,
\* I being its only message, returns I
C20_VisibleAfterChvisZero ==
    [][\A c \in Clients : (pc[c] = "recv_script" /\ pc'[c] = "idle") =>
          \A I \in DOMAIN hist :
              (hist[I].by = "chvis" /\ DOMAIN zset[loc[c].q] = {I}
                  /\ Get(hrc[loc[c].q], I, 0) >= 1)
              => (ret'.op = "receive_message" /\ ret'.status = "Some" /\ ret'.id = I)]_vars

\* a receive_message has returned a message for the second time while the
\* visibility timeout of its first receive has not elapsed
C20_Witness ==
    /\ ret.op = "receive_message" /\ ret.status = "Some" /\ ret.rc = 2
    /\ ret.id \in DOMAIN hist /\ hist[ret.id].by = "recv"
    /\ NowMillis < ret.fr + DefaultVt

\* C21: change_message_visibility on an existing queue with an id that is not
\* in the queue returns Ok and leaves the index, the hash and the counters as
\* they were: the id is not inserted into the index
C21_ChvisMissingId ==
    [][\A c \in Clients :
          (pc[c] = "chvis_script" /\ pc'[c] = "idle" /\ loc[c].id \notin DOMAIN zset[loc[c].q])
          => /\ ret'.op = "change_message_visibility" /\ ret'.status = "Ok" /\ ret'.c = c
             /\ UNCHANGED <<QUEUES, hconf, hmsg, hrc, hfr, zset>>]_vars

\* change_message_visibility has returned Ok on a queue whose only sent
\* message was deleted before the script ran
C21_Witness ==
    /\ ret.op = "change_message_visibility" /\ ret.status = "Ok"
    /\ \E q \in QNames : /\ zset[q] = Empty /\ hmsg[q] = Empty
                         /\ hconf[q]["totalsent"] = 1 /\ q \in QUEUES
    /\ \E id \in DOMAIN hist : hist[id].by = "deleted"

\* the call that client c's step starts or checks takes the duration d
TakesDuration(c, d) ==
    \/ \E q \in QNames : \/ CreateQueueTime(c, q, Some(d), None, None)
                         \/ CreateQueueTime(c, q, None, Some(d), None)
                         \/ RecvGetQueue(c, q, Some(d))
                         \/ \E id \in uids : ChvisGetQueue(c, q, id, d)
                         \/ \E msg \in Messages, r \in RndSuffixes :
                                SendGetQueue(c, q, msg, Some(d), r)
    \/ /\ SetTime(c)
       /\ Some(d) \in {loc[c].opts.hidden, loc[c].opts.delay}

\* C22: a duration of 0 or of 9_999_999_000 ms is accepted by every operation
\* that takes one, and every duration above 9_999_999_000 ms is rejected with
\* InvalidValue on an existing queue
C22_DurationRange ==
    [][\A c \in Clients, d \in RangeDurations :
          TakesDuration(c, d) =>
              IF d <= JS_COMPAT_MAX_TIME_MILLIS
              THEN ret'.status # "InvalidValue"
              ELSE ret'.status \in {"InvalidValue", "QueueNotFound"}]_vars

\* the step is client c's create_queue or set_queue_attributes checking the
\* maxsize m
TakesMaxsize(c, m) ==
    \/ \E q \in QNames : CreateQueueTime(c, q, None, None, Some(m))
    \/ SetTime(c) /\ loc[c].opts.maxsize = Some(m)

\* C23: the stored maxsize of a queue is in [1024, 65536] or is -1, its stored
\* vt and delay are in [0, 9_999_999_000 ms]; create_queue and
\* set_queue_attributes reject 1023 and 65537 with InvalidValue and accept -1
C23_StoredAttributeRanges ==
    /\ [](\A q \in QNames :
            /\ "maxsize" \in DOMAIN hconf[q] =>
                 (hconf[q]["maxsize"] = -1 \/ (hconf[q]["maxsize"] >= 1024
                                               /\ hconf[q]["maxsize"] <= 65536))
            /\ \A f \in {"vt", "delay"} : f \in DOMAIN hconf[q] =>
                 (hconf[q][f] >= 0 /\ hconf[q][f] <= JS_COMPAT_MAX_TIME_MILLIS))
    /\ [][\A c \in Clients :
            /\ \A m \in {1023, 65537} : TakesMaxsize(c, m) => ret'.status = "InvalidValue"
            /\ TakesMaxsize(c, -1) => ret'.status # "InvalidValue"]_vars

\* a queue created with the longest vt has had its maxsize set to -1
C23_Witness ==
    \E q \in QNames :
        /\ q \in QUEUES /\ ConfFields \subseteq DOMAIN hconf[q]
        /\ hconf[q]["maxsize"] = -1 /\ hconf[q]["vt"] = JS_COMPAT_MAX_TIME_MILLIS
        /\ hconf[q]["modified"] > hconf[q]["created"]

\* C24: send_message accepts a payload of at most maxsize bytes, and of any
\* length when maxsize is -1, and rejects a longer one with MessageTooLong,
\* maxsize being the queue's when the call reads it; a rejected send stores
\* no message and leaves totalsent as it was
C24_MaxsizeCheck ==
    [][\A c \in Clients, q \in QNames, msg \in SizeMessages, r \in RndSuffixes :
          SendGetQueue(c, q, msg, None, r) =>
              LET m == hconf[q]["maxsize"]
              IN  IF m = -1 \/ msg.len <= m
                  THEN /\ ret'.status # "MessageTooLong"
                       /\ pc'[c] = "send_pipeline" /\ loc'[c].msg = msg
                  ELSE /\ ret'.op = "send_message" /\ ret'.status = "MessageTooLong"
                       /\ pc'[c] = "idle"
                       /\ UNCHANGED <<QUEUES, hconf, hmsg, hrc, hfr, zset>>]_vars

\* a payload of 65537 bytes is stored on a queue whose maxsize was -1 when it
\* was sent and is 1024 now, and a second message is stored
C24_Witness ==
    \E q \in QNames :
        /\ \E id \in DOMAIN hmsg[q] : hmsg[q][id].len = 65537
        /\ hconf[q]["maxsize"] = 1024
        /\ hconf[q]["totalsent"] = 2
        /\ ret.op = "send_message" /\ ret.status = "Ok"

\* the format of queue names: 1 to 160 characters of [A-Za-z0-9_-]
WellFormedName(name) == NameLen(name) >= 1 /\ NameLen(name) <= 160 /\ NameCharsAllowed(name)

\* C25: create_queue accepts a name only if it has 1 to 160 characters, all in
\* [A-Za-z0-9_-]; for another name it fails with InvalidFormat and creates no
\* config hash and no registry entry
C25_NameFormat ==
    /\ [](\A q \in AllNames : (q \in QUEUES \/ hconf[q] # Empty) => WellFormedName(q))
    /\ [][\A c \in Clients, q \in AllNames :
            (CreateQueueTime(c, q, None, None, None) /\ ~WellFormedName(q))
                => ret'.op = "create_queue" /\ ret'.status = "InvalidFormat"]_vars

Alphanumeric == {possible[i] : i \in 1..62}

\* C26: an id that send_message returns, and that a dequeue returns, has 32
\* characters, the first 10 being the base-36 digits of the ts of the send
\* with zeros in front and the other 22 alphanumeric; the first 10 characters
\* read as base 36, the sent field, give that ts
C26_IdFormat ==
    ((ret.op = "send_message" /\ ret.status = "Ok")
        \/ (ret.op \in {"receive_message", "pop_message"} /\ ret.status = "Some"))
    => LET str == UidString(ret.id)
       IN  /\ Len(str) = 32
           /\ SubSeq(str, 1, 10) = PadZeros(radix_36(ret.id.ts), 10)
           /\ \A i \in 11..32 : str[i] \in Alphanumeric
           /\ Sent(str) = Numeral36(ret.id.ts)

\* C27: with realtime, a send_message that succeeds has issued, after its
\* pipeline committed, one PUBLISH on {NS}:rt:{qname} with the cardinality the
\* index had right after its message was added, and no id is published twice;
\* without realtime nothing is published
C27_RealtimePublish ==
    /\ [](~realtime => published = <<>>)
    /\ [](\A i, j \in DOMAIN published : published[i].id = published[j].id => i = j)
    /\ [][\A c \in Clients : (realtime /\ pc[c] = "send_pipeline" /\ pc'[c] # "send_pipeline") =>
            /\ pc'[c] = "send_publish" /\ ret' = NoRet /\ published' = published
            /\ loc[c].id \in DOMAIN zset'[loc[c].q]
            /\ loc'[c].card = Cardinality(DOMAIN zset'[loc[c].q])]_vars
    /\ [][(ret'.op = "send_message" /\ ret'.status = "Ok") =>
            IF realtime
            THEN /\ pc[ret'.c] = "send_publish"
                 /\ published' = Append(published,
                        [channel |-> <<"rsmq", ":rt:", loc[ret'.c].q>>,
                         payload |-> loc[ret'.c].card, id |-> ret'.id])
                 /\ ret'.id \in DOMAIN hist
            ELSE published' = published]_vars

\* with realtime, the second send_message has returned after publishing 1,
\* the first message having been removed before the second was added
C27_Witness ==
    /\ realtime
    /\ ret.op = "send_message" /\ ret.status = "Ok"
    /\ Len(published) = 2
    /\ published[1].payload = 1 /\ published[2].payload = 1
    /\ published[2].id = ret.id

\* C28: with realtime, a send_message whose PUBLISH fails still returns Ok
\* with the id of the message its pipeline has stored
C28_PublishErrorNotSurfaced ==
    [][\A c \in Clients : (pc[c] = "send_publish" /\ pc'[c] = "idle") =>
            /\ ret'.op = "send_message" /\ ret'.status = "Ok"
            /\ ret'.id = loc[c].id]_vars

\* C29: after a delete_queue that succeeded neither the config hash nor the
\* index of the name exists and the name is not in the registry; on a queue
\* created afterwards, to which nothing was sent, receive_message and
\* pop_message return None
C29_DeleteQueueRemovesAll ==
    /\ [][\A c \in Clients, q \in QNames :
            (DeleteQueue(c, q) /\ ret'.status = "Ok") =>
                /\ hconf'[q] = Empty /\ hmsg'[q] = Empty /\ hrc'[q] = Empty
                /\ hfr'[q] = Empty /\ zset'[q] = Empty
                /\ q \notin QUEUES']_vars
    /\ [][\A c \in Clients :
            (pc[c] \in {"recv_script", "pop_script"} /\ pc'[c] = "idle"
                /\ Get(hconf[loc[c].q], "totalsent", 1) = 0)
            => ret'.status = "None"]_vars

\* receive_message has returned None on a queue that was created after the
\* queue holding the message that was sent had been deleted
C29_Witness ==
    /\ ret.op = "receive_message" /\ ret.status = "None"
    /\ hist # Empty
    /\ \E q \in QNames : /\ q \in QUEUES /\ ConfFields \subseteq DOMAIN hconf[q]
                         /\ hconf[q]["totalsent"] = 0 /\ zset[q] = Empty
\* what a value read as E is in bytes
BytesOf(E, value) == IntoRedisBytes([type |-> E, value |-> value.data]).data

\* the payload of the dequeue that returns in this step, read as E, is in bytes
\* the payload its message was sent with
PayloadIntact(E) ==
    DequeueReturns => BytesOf(E, ret'.msg) = hist[ret'.id].bytes.data

\* C30: the payload that receive_message or pop_message returns for a message
\* is byte for byte the payload send_message was given, read as String, as
\* Vec<u8> or as a type of the user, whatever receives, visibility changes and
\* attribute updates came in between; and a payload converted to bytes and back
\* to its type is the same payload
C30_PayloadRoundTrip ==
    /\ [][/\ \A E \in DecodeTypes : RecvScriptAs("c1", E) => PayloadIntact(E)
          /\ \A E \in DecodeTypes : PopScriptAs("c1", E) => PayloadIntact(E)]_vars
    /\ \A p \in Payloads :
          LET back == TryFromRedisBytes(p.type, IntoRedisBytes(p))
          IN  back.ok /\ back.value.data = p.value

\* a message with a two-byte character was returned a second time, as a
\* string of two characters, in the millisecond of its first receive, which a
\* visibility change allows, after the queue's attributes were updated
C30_Witness ==
    /\ ret.op = "receive_message" /\ ret.status = "Some"
    /\ ret.msg.data = <<104, 233>>
    /\ ret.rc >= 2
    /\ hfr["q1"][ret.id] = NowMillis
    /\ hconf["q1"]["modified"] > hconf["q1"]["created"]
\* C31: when operations do not overlap, list_queues returns exactly the names
\* whose latest successful create_queue no successful delete_queue followed:
\* list_queues returns the members of the registry, which gains a name when
\* its create_queue returns Ok, loses it when its delete_queue returns Ok, and
\* which no other step changes
C31_ListQueues ==
    [][/\ ListQueues("c1") => ret'.list = QUEUES
       /\ CreateQueueSadd("c1") =>
             (ret'.status = "Ok" /\ QUEUES' = QUEUES \cup {loc["c1"].q})
       /\ \A q \in AllNames : (DeleteQueue("c1", q) /\ ret'.status = "Ok") =>
             (q \in QUEUES /\ QUEUES' = QUEUES \ {q})
       /\ (~(ret'.op \in {"create_queue", "delete_queue"} /\ ret'.status = "Ok")) =>
             QUEUES' = QUEUES]_vars

\* list_queues returned two names, created one after the other, and not a
\* third whose keys do not exist
C31_Witness ==
    /\ ret.op = "list_queues"
    /\ ret.list = {"q1", "a b"}
    /\ hconf["x161"] = Empty
    /\ hconf["q1"]["created"] < hconf["a b"]["created"]
\* no key of the name q exists
NoKeys(q) == ~HashExists(q) /\ ~ZsetExists(q)

\* C32: only create_queue brings a queue into existence: a step after which
\* the config hash or the index of a name exists, when neither existed before
\* it, is the HSETNX pipeline of a create_queue on that name
C32_OnlyCreateCreates ==
    [][\A q \in QNames : (NoKeys(q) /\ ~NoKeys(q)') =>
          \E c \in Clients : CreateQueueHsetnx(c) /\ loc[c].q = q]_vars
\* C33: right after a create_queue succeeds, before a later send commits, the
\* queue holds no message and its counters are zero: the HSETNX pipeline of a
\* create_queue that goes on to return Ok leaves the name with an empty index,
\* no payload and totalsent = totalrecv = 0, no other call being in flight
C33_CreatedQueueIsEmpty ==
    [][\A c \in Clients : (/\ CreateQueueHsetnx(c) /\ pc'[c] = "create_sadd"
                           /\ \A d \in Clients \ {c} : pc[d] = "idle") =>
          LET q == loc[c].q
          IN  /\ zset'[q] = Empty
              /\ hmsg'[q] = Empty
              /\ hconf'[q]["totalsent"] = 0
              /\ hconf'[q]["totalrecv"] = 0]_vars
\* C34: in every state the config hash of a name holds all seven config
\* fields or none of them
C34_ConfigAllOrNone ==
    \A q \in QNames : DOMAIN hconf[q] = {} \/ DOMAIN hconf[q] = ConfFields
\* the message id is a member of the index of q and its payload is stored
Stored(q, id) == id \in DOMAIN zset[q] /\ id \in DOMAIN hmsg[q]

\* the step returns the message id from delete_message as true or from
\* pop_message as a message
RemovalReported(id) ==
    /\ ret'.id = id
    /\ \/ ret'.op = "delete_message" /\ ret'.status = "true"
       \/ ret'.op = "pop_message" /\ ret'.status = "Some"

\* C35: a message that was sent stays a member of the index with its payload
\* stored until a delete_message that returns true, a pop_message that returns
\* it or a delete_queue of its queue removes it; no other step removes it, a
\* removed message does not come back, and only a stored message is reported
\* as removed, so none is removed twice
C35_MessageConservation ==
    [][\A q \in QNames : \A id \in DOMAIN hist :
          /\ (Stored(q, id) /\ ~Stored(q, id)') =>
                (RemovalReported(id) \/ (ret'.op = "delete_queue" /\ NoKeys(q)'))
          /\ ~Stored(q, id) => ~Stored(q, id)'
          /\ RemovalReported(id) => Stored(q, id)]_vars
\* C36: the ts that get_queue returns to send_message, receive_message,
\* pop_message and change_message_visibility is the server time of its TIME
\* reply at the resolution of a millisecond
C36_TsMillisecondResolution ==
    [][\A c \in Clients :
          (pc[c] = "idle" /\ pc'[c] \in {"send_pipeline", "recv_script", "pop_script",
                                         "chvis_script"}) =>
             loc'[c].ts = NowMillis]_vars
\* C37: receive_message and pop_message return, of the members of the index
\* whose score is at most the ts of the call, the one of lowest score, and of
\* those of equal lowest score the one whose id is first in string order; they
\* return None only when no member has a score of at most ts
C37_LowestScoreFirst ==
    [][\A c \in Clients :
          (pc[c] \in {"recv_script", "pop_script"} /\ pc'[c] = "idle") =>
             LET q == loc[c].q
                 V == Visible(q, loc[c].ts)
             IN  /\ ret'.status \in {"Some", "None"}
                 /\ ret'.status = "None" <=> V = {}
                 /\ ret'.status = "Some" =>
                       /\ ret'.id \in V
                       /\ \A o \in V \ {ret'.id} :
                             \/ zset[q][ret'.id] < zset[q][o]
                             \/ /\ zset[q][ret'.id] = zset[q][o]
                                /\ StrLess(UidString(ret'.id), UidString(o))]_vars

\* pop_message returned a message on its first delivery while the index held
\* another message of the same score, sent in the same second
C37_Witness ==
    /\ ret.op = "pop_message" /\ ret.status = "Some" /\ ret.rc = 1
    /\ hist[ret.id].due < ret.id.ts + TicksPerSec
    /\ \E o \in DOMAIN zset["q1"] :
          /\ o.ts = ret.id.ts
          /\ zset["q1"][o] = o.ts
          /\ StrLess(UidString(ret.id), UidString(o))
\* the step is one of client c's call of set_queue_attributes up to the checks
\* of its arguments
SetStepToChecks(c) ==
    \/ pc[c] = "idle" /\ pc'[c] = "set_time"
    \/ pc[c] = "set_time" /\ pc'[c] # "set_time"

\* C38: a validation failure writes nothing: a step in which create_queue or
\* set_queue_attributes returns InvalidValue, or send_message returns
\* InvalidValue or MessageTooLong, leaves the Redis state as it is, and so does
\* every step of a set_queue_attributes up to the checks of its arguments, so
\* that a rejected call applies no argument and does not update modified
C38_ValidationWritesNothing ==
    [][/\ (/\ ret'.op \in {"create_queue", "set_queue_attributes", "send_message"}
           /\ ret'.status \in {"InvalidValue", "MessageTooLong"}) => UNCHANGED redis
       /\ \A c \in Clients : SetStepToChecks(c) => UNCHANGED redis]_vars

\* set_queue_attributes, called with one argument in range and one out of it,
\* returned InvalidValue a second after the queue was created: the queue has
\* the attributes it was created with and modified = created
C38_Witness ==
    /\ ret.op = "set_queue_attributes" /\ ret.status = "InvalidValue"
    /\ ConfFields \subseteq DOMAIN hconf["q1"]
    /\ now.sec > hconf["q1"]["created"]
    /\ hconf["q1"]["modified"] = hconf["q1"]["created"]
    /\ hconf["q1"]["vt"] = TicksPerSec /\ hconf["q1"]["maxsize"] = 2048
Counter(q, f) == Get(hconf[q], f, 0)

\* get_queue finds q
Found(q) == {"vt", "delay", "maxsize"} \subseteq DOMAIN hconf[q]

\* C40: while a queue exists its totalsent is the number of send_message calls
\* that succeeded on it since its creation and its totalrecv the number of
\* receive_message and pop_message calls that returned a message from it: a
\* create_queue that succeeds leaves both at 0, a step on an existing queue
\* adds 1 to totalsent iff a send_message returns Ok in it and 1 to totalrecv
\* iff a dequeue returns a message in it, and no step changes them otherwise,
\* so that set_queue_attributes, change_message_visibility and delete_message
\* leave them unchanged and neither decreases
C40_CountersCount ==
    [][\A q \in QNames :
          /\ (\E c \in Clients : /\ pc[c] = "create_hsetnx" /\ pc'[c] = "create_sadd"
                                  /\ loc[c].q = q) =>
                (Counter(q, "totalsent")' = 0 /\ Counter(q, "totalrecv")' = 0)
          /\ (Found(q) /\ Found(q)') =>
                /\ Counter(q, "totalsent")' - Counter(q, "totalsent") =
                      (IF ret'.op = "send_message" /\ ret'.status = "Ok" THEN 1 ELSE 0)
                /\ Counter(q, "totalrecv")' - Counter(q, "totalrecv") =
                      (IF DequeueReturns THEN 1 ELSE 0)]_vars
====
